---------------------------- MODULE Spec2Model ----------------------------
(***************************************************************************)
(* Model of the call-centre sentiment analysis program: the categorical    *)
(* analyzer (analyzer.py), the conversation parser and validator           *)
(* (utils.py) and the two analysis tabs of the application (app.py).       *)
(*                                                                         *)
(* Program text (segment speakers and texts, service replies, error        *)
(* messages) is a sequence of one-character strings, so that strip, split, *)
(* startswith, lower and substring search are computed character by        *)
(* character as Python computes them.  Enumeration-like literals           *)
(* ('neutral', 'success', exception type names) are TLA+ strings.          *)
(***************************************************************************)
EXTENDS Integers, Sequences, FiniteSets, TLC

(***************************************************************************)
(* Bounds of the model.                                                    *)
(***************************************************************************)
\* longest segment list handed to analyze_full_call
MaxSegs == 2

\* most lines of a conversation text entered in a tab
MaxLines == 2

(***************************************************************************)
(* Python str operations on character sequences.                           *)
(***************************************************************************)
UpperLetters == <<"A","B","C","D","E","F","G","H","I","J","K","L","M",
                  "N","O","P","Q","R","S","T","U","V","W","X","Y","Z">>

LowerLetters == <<"a","b","c","d","e","f","g","h","i","j","k","l","m",
                  "n","o","p","q","r","s","t","u","v","w","x","y","z">>

\* str.lower() on one character
LowerChar(c) ==
    IF \E i \in 1..Len(UpperLetters) : UpperLetters[i] = c
    THEN LowerLetters[CHOOSE i \in 1..Len(UpperLetters) : UpperLetters[i] = c]
    ELSE c

\* str.lower()
Lower(s) == [i \in 1..Len(s) |-> LowerChar(s[i])]

\* the characters str.strip() removes
IsSpace(c) == c \in {" ", "\t", "\n", "\r"}

\* the characters the regular expression \d matches
IsDigit(c) == c \in {"0","1","2","3","4","5","6","7","8","9"}

\* int() of one digit character
DigitValue(c) ==
    CASE c = "0" -> 0 [] c = "1" -> 1 [] c = "2" -> 2 [] c = "3" -> 3
      [] c = "4" -> 4 [] c = "5" -> 5 [] c = "6" -> 6 [] c = "7" -> 7
      [] c = "8" -> 8 [] c = "9" -> 9

\* str.strip(): s without its leading and trailing whitespace
Strip(s) ==
    LET kept == {i \in 1..Len(s) : ~IsSpace(s[i])}
    IN  IF kept = {}
        THEN <<>>
        ELSE SubSeq(s, CHOOSE i \in kept : \A j \in kept : i <= j,
                       CHOOSE i \in kept : \A j \in kept : i >= j)

\* str.find(c) + 1: the position of the first c in s, 0 when there is none
FindChar(s, c) ==
    LET hits == {i \in 1..Len(s) : s[i] = c}
    IN  IF hits = {} THEN 0 ELSE CHOOSE i \in hits : \A j \in hits : i <= j

\* s.split(c): the pieces of s between the occurrences of c
RECURSIVE Split(_, _)
Split(s, c) ==
    LET i == FindChar(s, c)
    IN  IF i = 0
        THEN <<s>>
        ELSE <<SubSeq(s, 1, i - 1)>> \o Split(SubSeq(s, i + 1, Len(s)), c)

\* s.split(c, 1)[1], defined when c occurs in s
AfterFirst(s, c) == SubSeq(s, FindChar(s, c) + 1, Len(s))

\* s.split(c, 1)[0]
BeforeFirst(s, c) ==
    IF FindChar(s, c) = 0 THEN s ELSE SubSeq(s, 1, FindChar(s, c) - 1)

\* s.startswith(p)
StartsWith(s, p) == Len(s) >= Len(p) /\ SubSeq(s, 1, Len(p)) = p

\* sub in s
Contains(s, sub) ==
    \E i \in 1..(Len(s) - Len(sub) + 1) : SubSeq(s, i, i + Len(sub) - 1) = sub

\* re.search(r'(\d)', s): the position of the first digit of s, 0 for no match
FirstDigit(s) ==
    IF \E i \in 1..Len(s) : IsDigit(s[i])
    THEN CHOOSE i \in 1..Len(s) : IsDigit(s[i]) /\ \A j \in 1..(i - 1) : ~IsDigit(s[j])
    ELSE 0

\* '\n'.join(lines)
RECURSIVE JoinLines(_)
JoinLines(lines) ==
    IF lines = <<>> THEN <<>>
    ELSE IF Len(lines) = 1 THEN lines[1]
    ELSE lines[1] \o <<"\n">> \o JoinLines(Tail(lines))


(***************************************************************************)
(* config.py: SENTIMENT_CONFIG and DEFAULT_PROMPTS.                        *)
(***************************************************************************)
AliasCustomer == <<"c","u","s","t","o","m","e","r">>

AliasCliente == <<"c","l","i","e","n","t","e">>

AliasClient == <<"c","l","i","e","n","t">>

AliasAgent == <<"a","g","e","n","t">>

AliasAgente == <<"a","g","e","n","t","e">>

AliasOperador == <<"o","p","e","r","a","d","o","r">>

AliasGestor == <<"g","e","s","t","o","r">>

\* SENTIMENT_CONFIG["speaker_aliases"]
SpeakerAliases ==
    [customer |-> {AliasCustomer, AliasCliente, AliasClient},
     agent    |-> {AliasAgent, AliasAgente, AliasOperador, AliasGestor}]

\* SENTIMENT_CONFIG["sentiment_values"]
SentimentValues == [negative |-> -1, neutral |-> 0, positive |-> 1]

\* A prompt template is a sequence of tokens of Python's format-string
\* syntax: literal text, a replacement field {name}, an escaped brace
\* ({{ or }}), or a single brace that opens or closes nothing.
Lit(s) == [t |-> "lit", s |-> s]

Field(name) == [t |-> "field", s |-> name]

EscapedBrace == [t |-> "escaped", s |-> "{{"]

LoneOpenBrace == [t |-> "lone", s |-> "{"]

\* DEFAULT_PROMPTS["spanish_banking"]
PromptSpanishBanking ==
    << Lit("Eres un analista ... Hablante: "), Field("speaker"),
       Lit(" Texto: "), Field("text"),
       Lit(" Momento: "), Field("timestamp"),
       Lit(" Proporciona EXACTAMENTE en este formato: ...") >>

\* DEFAULT_PROMPTS["general"]
PromptGeneral ==
    << Lit("Analyze this conversation segment for sentiment: Speaker: "),
       Field("speaker"), Lit(" Text: "), Field("text"),
       Lit(" Timestamp: "), Field("timestamp"),
       Lit(" Provide in this exact format: ...") >>

\* None, the default of the custom_prompt parameter (a value of the
\* templates' shape that is no template)
None == << [t |-> "None", s |-> ""] >>

(***************************************************************************)
(* str.format with keyword arguments on a template: the rendered pieces,   *)
(* or the exception the first offending token raises.                      *)
(***************************************************************************)
FormatToken(tok, kwargs) ==
    CASE tok.t = "lit"     -> [exc |-> "none", piece |-> <<tok.s>>]
      [] tok.t = "escaped" -> [exc |-> "none", piece |-> <<tok.s>>]
      [] tok.t = "lone"    -> [exc |-> "ValueError", piece |-> <<>>]
      [] tok.t = "field"   ->
            IF tok.s = "" THEN [exc |-> "IndexError", piece |-> <<>>]
            ELSE IF tok.s \in DOMAIN kwargs
                 THEN [exc |-> "none", piece |-> <<kwargs[tok.s]>>]
                 ELSE [exc |-> "KeyError", piece |-> <<>>]

RECURSIVE Format(_, _)
Format(template, kwargs) ==
    IF template = <<>> THEN [exc |-> "none", text |-> <<>>]
    ELSE LET first == FormatToken(Head(template), kwargs)
             rest  == Format(Tail(template), kwargs)
         IN  IF first.exc # "none" THEN [exc |-> first.exc, text |-> <<>>]
             ELSE IF rest.exc # "none" THEN rest
             ELSE [exc |-> "none", text |-> first.piece \o rest.text]

(***************************************************************************)
(* analyzer.py: SabadellSentimentAnalyzer.                                 *)
(***************************************************************************)
\* dict.get(key, default)
Get(d, key, default) == IF key \in DOMAIN d THEN d[key] ELSE default

Max(a, b) == IF a >= b THEN a ELSE b

Min(a, b) == IF a <= b THEN a ELSE b

\* A decoded JSON value is a text when it is a JSON string; a value of
\* another Python type is its type name followed by the characters of its
\* str().
PyTypes == {"int", "bool", "NoneType"}

PyValue(type, text) == <<type>> \o text

\* isinstance(v, str)
IsStr(v) == v = <<>> \/ v[1] \notin PyTypes

\* str(v)
Str(v) == IF IsStr(v) THEN v ELSE Tail(v)

\* the number a run of decimal digits writes
RECURSIVE DigitsValue(_)
DigitsValue(t) ==
    IF t = <<>> THEN 0
    ELSE DigitsValue(SubSeq(t, 1, Len(t) - 1)) * 10 + DigitValue(t[Len(t)])

IsDigits(t) == t # <<>> /\ \A i \in 1..Len(t) : IsDigit(t[i])

\* the integer a text writes in decimal, with an optional sign: ok is FALSE
\* when the text is no such numeral
SignedValue(t) ==
    IF IsDigits(t) THEN [ok |-> TRUE, value |-> DigitsValue(t)]
    ELSE IF Len(t) >= 2 /\ t[1] = "-" /\ IsDigits(Tail(t))
    THEN [ok |-> TRUE, value |-> 0 - DigitsValue(Tail(t))]
    ELSE [ok |-> FALSE, value |-> 0]

\* int(v) of Python: the integer, or the exception raised (ValueError for a text
\* that is no numeral, TypeError for None)
PyInt(v) ==
    IF IsStr(v)
    THEN LET n == SignedValue(Strip(v))
         IN  IF n.ok THEN [exc |-> "none", value |-> n.value]
             ELSE [exc |-> "ValueError", value |-> 0]
    ELSE IF v[1] = "int" THEN [exc |-> "none", value |-> SignedValue(Tail(v)).value]
    ELSE IF v[1] = "bool"
    THEN [exc |-> "none", value |-> IF Tail(v) = <<"T","r","u","e">> THEN 1 ELSE 0]
    ELSE [exc |-> "TypeError", value |-> 0]

\* __init__: the attributes the constructor has set on self, by whether
\* cohere.Client(api_key) returned or raised
Construct(client_ok) ==
    IF client_ok
    THEN [api_connected |-> TRUE,
          attrs |-> {"co", "api_connected", "settings", "sentiment_config"}]
    ELSE [api_connected |-> FALSE, attrs |-> {"api_connected"}]

LabelSentimiento == <<"S","e","n","t","i","m","i","e","n","t","o",":">>

LabelSentiment == <<"S","e","n","t","i","m","e","n","t",":">>

LabelIntensidad == <<"I","n","t","e","n","s","i","d","a","d",":">>

LabelIntensity == <<"I","n","t","e","n","s","i","t","y",":">>

LabelContexto == <<"C","o","n","t","e","x","t","o",":">>

LabelContext == <<"C","o","n","t","e","x","t",":">>

WordPositivo == <<"p","o","s","i","t","i","v","o">>

WordPositive == <<"p","o","s","i","t","i","v","e">>

WordNegativo == <<"n","e","g","a","t","i","v","o">>

WordNegative == <<"n","e","g","a","t","i","v","e">>

NotAvailable == <<"N","/","A">>

ErrorContextPrefix == <<"E","r","r","o","r",":"," ">>

ErrorRawPrefix == <<"E","R","R","O","R",":"," ">>

MsgApiNotConnected == <<"A","P","I"," ","n","o","t"," ","c","o","n","n","e","c","t","e","d">>

\* line.startswith(label): the test of the three label branches
LabelMatches(line, label) == StartsWith(line, label)

\* the sentiment branch testing the negative words before the positive ones
ParseSentiment_NegativeFirst(line) ==
    LET sentiment_text == Lower(Strip(AfterFirst(line, ":")))
    IN  IF Contains(sentiment_text, WordNegativo) \/ Contains(sentiment_text, WordNegative)
        THEN "negative"
        ELSE IF Contains(sentiment_text, WordPositivo) \/ Contains(sentiment_text, WordPositive)
             THEN "positive"
             ELSE "neutral"

\* the Sentimiento:/Sentiment: branch of _parse_cohere_response
ParseSentiment(line) ==
    LET sentiment_text == Lower(Strip(AfterFirst(line, ":")))
    IN  IF Contains(sentiment_text, WordPositivo) \/ Contains(sentiment_text, WordPositive)
        THEN "positive"
        ELSE IF Contains(sentiment_text, WordNegativo) \/ Contains(sentiment_text, WordNegative)
             THEN "negative"
             ELSE "neutral"

\* the intensity stored as parsed, without the clamp
ClampIntensity_Unclamped(intensity) == intensity

\* max(1, min(5, intensity))
ClampIntensity(intensity) == Max(1, Min(5, intensity))

\* the Intensidad:/Intensity: branch: the first digit found, clamped, or
\* the intensity so far when the value holds no digit
ParseIntensity(line, current) ==
    LET intensity_str == Strip(AfterFirst(line, ":"))
        intensity_match == FirstDigit(intensity_str)
    IN  IF intensity_match # 0
        THEN ClampIntensity(DigitValue(intensity_str[intensity_match]))
        ELSE current

\* one iteration of the loop over the reply's lines
ParseLine(result, rawline) ==
    LET line == Strip(rawline)
    IN  IF LabelMatches(line, LabelSentimiento) \/ LabelMatches(line, LabelSentiment)
        THEN [result EXCEPT !.sentiment = ParseSentiment(line)]
        ELSE IF LabelMatches(line, LabelIntensidad) \/ LabelMatches(line, LabelIntensity)
        THEN [result EXCEPT !.intensity = ParseIntensity(line, result.intensity)]
        ELSE IF LabelMatches(line, LabelContexto) \/ LabelMatches(line, LabelContext)
        THEN [result EXCEPT !.context = Strip(AfterFirst(line, ":"))]
        ELSE result

RECURSIVE ParseLines(_, _)
ParseLines(result, lines) ==
    IF lines = <<>> THEN result
    ELSE ParseLines(ParseLine(result, Head(lines)), Tail(lines))

\* the parser reporting a reply that sets none of the fields as an error
ParseCohereResponse_Strict(response_text, original_segment) ==
    LET defaults ==
            [timestamp       |-> Get(original_segment, "timestamp", NotAvailable),
             speaker         |-> original_segment.speaker,
             original_text   |-> original_segment.text,
             sentiment       |-> "neutral",
             intensity       |-> 3,
             context         |-> <<>>,
             raw_response    |-> response_text,
             analysis_status |-> "success"]
        parsed == ParseLines(defaults, Split(Strip(response_text), "\n"))
    IN  IF parsed = defaults THEN [defaults EXCEPT !.analysis_status = "error"] ELSE parsed

\* _parse_cohere_response
ParseCohereResponse(response_text, original_segment) ==
    ParseLines(
        [timestamp       |-> Get(original_segment, "timestamp", NotAvailable),
         speaker         |-> original_segment.speaker,
         original_text   |-> original_segment.text,
         sentiment       |-> "neutral",
         intensity       |-> 3,
         context         |-> <<>>,
         raw_response    |-> response_text,
         analysis_status |-> "success"],
        Split(Strip(response_text), "\n"))

\* the error response with a status the counters do not count
CreateErrorResponse_Failed(segment, error_msg) ==
    [timestamp       |-> Get(segment, "timestamp", NotAvailable),
     speaker         |-> segment.speaker,
     original_text   |-> segment.text,
     sentiment       |-> "neutral",
     intensity       |-> 3,
     context         |-> ErrorContextPrefix \o error_msg,
     raw_response    |-> ErrorRawPrefix \o error_msg,
     analysis_status |-> "failed"]

\* _create_error_response
CreateErrorResponse(segment, error_msg) ==
    [timestamp       |-> Get(segment, "timestamp", NotAvailable),
     speaker         |-> segment.speaker,
     original_text   |-> segment.text,
     sentiment       |-> "neutral",
     intensity       |-> 3,
     context         |-> ErrorContextPrefix \o error_msg,
     raw_response    |-> ErrorRawPrefix \o error_msg,
     analysis_status |-> "error"]

\* the keyword arguments both format calls of analyze_call_segment pass
PromptArgs(segment) ==
    [speaker   |-> segment.speaker,
     text      |-> segment.text,
     timestamp |-> Get(segment, "timestamp", NotAvailable)]

\* the try block of analyze_call_segment: self.co.chat(...) returns a reply
\* or raises, and every exception is turned into an error response
ChatAndParse(segment, behaviour) ==
    IF behaviour.kind = "reply"
    THEN ParseCohereResponse(behaviour.text, segment)
    ELSE CreateErrorResponse(segment, behaviour.text)

\* analyze_call_segment without its try block: an exception of the
\* completion service leaves the method
AnalyzeCallSegment_NoTry(self, segment, custom_prompt, behaviour) ==
    IF ~self.api_connected
    THEN [exc |-> "none", called |-> FALSE,
          value |-> CreateErrorResponse(segment, MsgApiNotConnected)]
    ELSE LET template == IF custom_prompt # None /\ custom_prompt # <<>>
                         THEN custom_prompt ELSE PromptSpanishBanking
             prompt == Format(template, PromptArgs(segment))
         IN  IF prompt.exc # "none"
             THEN [exc |-> prompt.exc, called |-> FALSE, value |-> <<>>]
             ELSE IF behaviour.kind = "raise"
             THEN [exc |-> "Exception", called |-> TRUE, value |-> <<>>]
             ELSE [exc |-> "none", called |-> TRUE,
                   value |-> ParseCohereResponse(behaviour.text, segment)]

\* analyze_call_segment: exc is the exception that leaves the method
\* ("none" when it returns), value the dictionary returned, called whether
\* the completion service was called
AnalyzeCallSegment(self, segment, custom_prompt, behaviour) ==
    IF ~self.api_connected
    THEN [exc |-> "none", called |-> FALSE,
          value |-> CreateErrorResponse(segment, MsgApiNotConnected)]
    ELSE LET template == IF custom_prompt # None /\ custom_prompt # <<>>
                         THEN custom_prompt ELSE PromptSpanishBanking
             prompt == Format(template, PromptArgs(segment))
         IN  IF prompt.exc # "none"
             THEN [exc |-> prompt.exc, called |-> FALSE, value |-> <<>>]
             ELSE [exc |-> "none", called |-> TRUE,
                   value |-> ChatAndParse(segment, behaviour)]


\* _filter_by_speaker_type
FilterBySpeakerType(segments, speaker_type) ==
    SelectSeq(segments, LAMBDA s : Lower(s.speaker) \in SpeakerAliases[speaker_type])

\* sentiment_values[s['sentiment']] * s['intensity']
WeightedScore(s) == SentimentValues[s.sentiment] * s.intensity

\* the improvement taken from the last segment back to the first
CalculateImprovement_Reversed(segments) ==
    IF Len(segments) < 2 THEN 0
    ELSE WeightedScore(segments[1]) - WeightedScore(segments[Len(segments)])

\* _calculate_improvement
CalculateImprovement(segments) ==
    IF Len(segments) < 2 THEN 0
    ELSE WeightedScore(segments[Len(segments)]) - WeightedScore(segments[1])

RECURSIVE SumScores(_)
SumScores(segments) ==
    IF segments = <<>> THEN 0 ELSE WeightedScore(Head(segments)) + SumScores(Tail(segments))

\* _calculate_overall_improvement: second_half_avg - first_half_avg as the
\* fraction num / den
CalculateOverallImprovement(segments) ==
    IF Len(segments) < 4 THEN [num |-> 0, den |-> 1]
    ELSE LET midpoint    == Len(segments) \div 2
             first_half  == SubSeq(segments, 1, midpoint)
             second_half == SubSeq(segments, midpoint + 1, Len(segments))
         IN  [num |-> SumScores(second_half) * Len(first_half)
                      - SumScores(first_half) * Len(second_half),
              den |-> Len(first_half) * Len(second_half)]

\* len([s for s in segments if s[field] == value])
CountWhere(segments, field, value) ==
    Cardinality({k \in 1..Len(segments) : segments[k][field] = value})

RECURSIVE SumIntensity(_)
SumIntensity(segments) ==
    IF segments = <<>> THEN 0 ELSE Head(segments).intensity + SumIntensity(Tail(segments))

\* round(total / count, 2) in hundredths, ties to the even hundredth
RoundedMean(total, count) ==
    LET q == (total * 100) \div count
        r == (total * 100) % count
    IN  IF 2 * r < count THEN q
        ELSE IF 2 * r > count THEN q + 1
        ELSE IF q % 2 = 0 THEN q ELSE q + 1

\* the outcome ladder with its thresholds included in the upper class
CallOutcome_Inclusive(improvement) ==
    IF improvement >= 2 THEN "highly_successful"
    ELSE IF improvement >= 0 THEN "successful"
    ELSE IF improvement >= -2 THEN "neutral"
    ELSE "needs_attention"

\* the outcome ladder of _generate_call_summary
CallOutcome(improvement) ==
    IF improvement > 2 THEN "highly_successful"
    ELSE IF improvement > 0 THEN "successful"
    ELSE IF improvement > -2 THEN "neutral"
    ELSE "needs_attention"

\* the dominant sentiment with a tie going to the last of the tied keys
DominantSentiment_TiesToLast(counts) ==
    IF counts.negative >= counts.neutral /\ counts.negative >= counts.positive
    THEN "negative"
    ELSE IF counts.neutral >= counts.positive THEN "neutral" ELSE "positive"

\* max(sentiment_counts, key=sentiment_counts.get): the first key, in the
\* dictionary's insertion order positive, neutral, negative, whose count is
\* the largest
DominantSentiment(counts) ==
    IF counts.positive >= counts.neutral /\ counts.positive >= counts.negative
    THEN "positive"
    ELSE IF counts.neutral >= counts.negative THEN "neutral" ELSE "negative"

\* _generate_call_summary (average_intensity in hundredths)
GenerateCallSummary(segments, improvement) ==
    LET sentiment_counts ==
            [positive |-> CountWhere(segments, "sentiment", "positive"),
             neutral  |-> CountWhere(segments, "sentiment", "neutral"),
             negative |-> CountWhere(segments, "sentiment", "negative")]
    IN  [improvement_score      |-> improvement,
         sentiment_distribution |-> sentiment_counts,
         average_intensity      |-> IF segments # <<>>
                                    THEN RoundedMean(SumIntensity(segments), Len(segments))
                                    ELSE 0,
         call_outcome           |-> CallOutcome(improvement),
         dominant_sentiment     |-> DominantSentiment(sentiment_counts),
         total_exchanges        |-> Len(segments)]

\* the recommendations with the follow-up suggested only after a decline
\* below -1
GenerateRecommendations_FollowUpOnDecline(customer_improvement) ==
    (IF customer_improvement > 1 THEN <<"excellent_experience">>
     ELSE IF customer_improvement > 0 THEN <<"sentiment_improved">>
     ELSE IF customer_improvement < -1 THEN <<"satisfaction_declined">>
     ELSE <<"remained_stable">>)
    \o (IF customer_improvement < -1 THEN <<"proactive_follow_up">> ELSE <<>>)

\* _generate_recommendations, each message by a short name
GenerateRecommendations(customer_improvement) ==
    (IF customer_improvement > 1 THEN <<"excellent_experience">>
     ELSE IF customer_improvement > 0 THEN <<"sentiment_improved">>
     ELSE IF customer_improvement < -1 THEN <<"satisfaction_declined">>
     ELSE <<"remained_stable">>)
    \o (IF customer_improvement < 0 THEN <<"proactive_follow_up">> ELSE <<>>)

\* the metrics dictionary of analyze_full_call
Metrics(analyzed, customer_improvement) ==
    [customer_improvement |-> customer_improvement,
     overall_improvement  |-> CalculateOverallImprovement(analyzed),
     call_success         |-> customer_improvement > 0,
     total_segments       |-> Len(analyzed),
     successful_analyses  |-> CountWhere(analyzed, "analysis_status", "success"),
     error_count          |-> CountWhere(analyzed, "analysis_status", "error")]

\* the part of analyze_full_call after the loop: the dictionary it returns
\* (call_id and timestamp, which hold the wall-clock time, are left out)
BuildResult(analyzed) ==
    LET customer_segments    == FilterBySpeakerType(analyzed, "customer")
        customer_improvement == CalculateImprovement(customer_segments)
    IN  [analyzed_segments   |-> analyzed,
         customer_trajectory |-> customer_segments,
         metrics             |-> Metrics(analyzed, customer_improvement),
         summary             |-> GenerateCallSummary(analyzed, customer_improvement),
         recommendations     |-> GenerateRecommendations(customer_improvement)]

\* self.sentiment_config, read first by _filter_by_speaker_type, exists
\* only when the constructor reached its assignment
AggregationException(self) ==
    IF "sentiment_config" \in self.attrs THEN "none" ELSE "AttributeError"


(***************************************************************************)
(* utils.py: ConversationParser.                                           *)
(***************************************************************************)
\* str(n) for n >= 0
RECURSIVE Decimal(_)
Decimal(n) ==
    LET DigitChar == <<"0","1","2","3","4","5","6","7","8","9">>
    IN  IF n < 10 THEN <<DigitChar[n + 1]>>
        ELSE Decimal(n \div 10) \o <<DigitChar[(n % 10) + 1]>>

\* f"{n:02d}"
TwoDigits(n) == IF n < 10 THEN <<"0">> \o Decimal(n) ELSE Decimal(n)

\* f"{timestamp_counter//2:02d}:{(timestamp_counter%2)*30:02d}"
SyntheticTimestamp(timestamp_counter) ==
    TwoDigits(timestamp_counter \div 2) \o <<":">> \o TwoDigits((timestamp_counter % 2) * 30)

\* one line of a simple-format parser that keeps the text as split off
SimpleLineSegments_Untrimmed(rawline, timestamp_counter) ==
    LET line == Strip(rawline)
        speaker == Strip(BeforeFirst(line, ":"))
        text_content == AfterFirst(line, ":")
    IN  IF FindChar(line, ":") # 0 /\ line # <<>> /\ speaker # <<>>
        THEN << [speaker   |-> speaker,
                 text      |-> text_content,
                 timestamp |-> SyntheticTimestamp(timestamp_counter)] >>
        ELSE <<>>

\* one line of _parse_simple_format: the segment appended, if any
SimpleLineSegments(rawline, timestamp_counter) ==
    LET line == Strip(rawline)
        speaker == Strip(BeforeFirst(line, ":"))
        text_content == Strip(AfterFirst(line, ":"))
    IN  IF FindChar(line, ":") # 0 /\ line # <<>> /\ speaker # <<>> /\ text_content # <<>>
        THEN << [speaker   |-> speaker,
                 text      |-> text_content,
                 timestamp |-> SyntheticTimestamp(timestamp_counter)] >>
        ELSE <<>>

RECURSIVE ParseSimpleLines(_, _)
ParseSimpleLines(lines, timestamp_counter) ==
    IF lines = <<>> THEN <<>>
    ELSE LET got == SimpleLineSegments(Head(lines), timestamp_counter)
         IN  got \o ParseSimpleLines(Tail(lines), timestamp_counter + Len(got))

\* _parse_simple_format
ParseSimpleFormat(text) == ParseSimpleLines(Split(Strip(text), "\n"), 0)

\* the length of the prefix of line that \[(\d{1,2}:\d{2})\] matches, 0 for
\* no match
TimestampPrefix(line) ==
    IF /\ Len(line) >= 7 /\ line[1] = "[" /\ IsDigit(line[2]) /\ IsDigit(line[3])
       /\ line[4] = ":" /\ IsDigit(line[5]) /\ IsDigit(line[6]) /\ line[7] = "]"
    THEN 7
    ELSE IF /\ Len(line) >= 6 /\ line[1] = "[" /\ IsDigit(line[2]) /\ line[3] = ":"
            /\ IsDigit(line[4]) /\ IsDigit(line[5]) /\ line[6] = "]"
    THEN 6
    ELSE 0

\* one line of _parse_timestamped_format: re.match of
\* \[(\d{1,2}:\d{2})\]\s*(.+) on the stripped line, then the split at the
\* first colon of the content
TimestampedLineSegments(rawline) ==
    LET line == Strip(rawline)
        n == TimestampPrefix(line)
        timestamp == SubSeq(line, 2, n - 1)
        content == Strip(SubSeq(line, n + 1, Len(line)))
        speaker == Strip(BeforeFirst(content, ":"))
        text_content == Strip(AfterFirst(content, ":"))
    IN  IF /\ line # <<>> /\ n # 0 /\ Len(line) > n
           /\ FindChar(content, ":") # 0 /\ speaker # <<>> /\ text_content # <<>>
        THEN << [speaker |-> speaker, text |-> text_content, timestamp |-> timestamp] >>
        ELSE <<>>

RECURSIVE ParseTimestampedLines(_)
ParseTimestampedLines(lines) ==
    IF lines = <<>> THEN <<>>
    ELSE TimestampedLineSegments(Head(lines)) \o ParseTimestampedLines(Tail(lines))

\* _parse_timestamped_format
ParseTimestampedFormat(text) == ParseTimestampedLines(Split(Strip(text), "\n"))

JsonConversationText == <<"[","{","\"","s","p","e","a","k","e","r","\"",":"," ","\"","C","u","s","t","o","m","e","r","\"",","," ","\"","t","e","x","t","\"",":"," ","\"","I"," ","a","m"," ","u","p","s","e","t","\"",","," ","\"","t","i","m","e","s","t","a","m","p","\"",":"," ","\"","0","0",":","1","0","\"","}",","," ","{","\"","s","p","e","a","k","e","r","\"",":"," ","\"","A","g","e","n","t","\"",","," ","\"","t","e","x","t","\"",":"," ","\"","S","o","r","r","y","\"","}","]">>

JsonObjectText == <<"{","\"","s","p","e","a","k","e","r","\"",":"," ","\"","C","u","s","t","o","m","e","r","\"",","," ","\"","t","e","x","t","\"",":"," ","\"","I"," ","a","m"," ","u","p","s","e","t","\"","}">>

JsonBadItemsText == <<"[","{","\"","s","p","e","a","k","e","r","\"",":"," ","\"","C","u","s","t","o","m","e","r","\"","}",","," ","5",","," ","{","\"","s","p","e","a","k","e","r","\"",":"," ","\""," ","\"",","," ","\"","t","e","x","t","\"",":"," ","\"","S","o","r","r","y","\"","}","]">>

JsonTypedText == <<"[","{","\"","s","p","e","a","k","e","r","\"",":"," ","5",","," ","\"","t","e","x","t","\"",":"," ","\""," ","S","o","r","r","y"," ","\"",","," ","\"","t","i","m","e","s","t","a","m","p","\"",":"," ","1","0","}",","," ","{","\"","s","p","e","a","k","e","r","\"",":"," ","\"","A","g","e","n","t","\"",","," ","\"","t","e","x","t","\"",":"," ","\"","S","o","r","r","y","\"",","," ","\"","t","i","m","e","s","t","a","m","p","\"",":"," ","n","u","l","l","}","]">>

TimeTen == <<"0","0",":","1","0">>

TextSorry == <<"S","o","r","r","y">>

\* the value of a JSON scalar: true, false, null, an integer numeral, or a
\* string without escapes; ok is FALSE for any other text
JsonScalar(t) ==
    IF t = <<"t","r","u","e">> THEN [ok |-> TRUE, value |-> PyValue("bool", <<"T","r","u","e">>)]
    ELSE IF t = <<"f","a","l","s","e">>
    THEN [ok |-> TRUE, value |-> PyValue("bool", <<"F","a","l","s","e">>)]
    ELSE IF t = <<"n","u","l","l">>
    THEN [ok |-> TRUE, value |-> PyValue("NoneType", <<"N","o","n","e">>)]
    ELSE IF SignedValue(t).ok /\ (Len(t) = 1 \/ t[1] # "0") /\ ~StartsWith(t, <<"-","0">>)
    THEN [ok |-> TRUE, value |-> PyValue("int", t)]
    ELSE IF /\ Len(t) >= 2 /\ t[1] = "\"" /\ t[Len(t)] = "\""
            /\ \A i \in 2..(Len(t) - 1) : t[i] \notin {"\"", "\\"}
    THEN [ok |-> TRUE, value |-> SubSeq(t, 2, Len(t) - 1)]
    ELSE [ok |-> FALSE, value |-> <<>>]

\* '{"solved": ', the opening of a one-key object
SolvedObjectOpening == <<"{","\"","s","o","l","v","e","d","\"",":"," ">>

\* the scalar text between '{"solved": ' and '}', <<>> when the text is
\* not of that form
SolvedObjectBody(text) ==
    IF /\ StartsWith(text, SolvedObjectOpening)
       /\ Len(text) > Len(SolvedObjectOpening) + 1
       /\ text[Len(text)] = "}"
    THEN SubSeq(text, Len(SolvedObjectOpening) + 1, Len(text) - 1)
    ELSE <<>>

\* a dictionary without keys
EmptyDict == [key \in {} |-> <<>>]

\* json.loads on the JSON documents of the model: the decoded value, each
\* item an object with its string fields or a value of another kind; any
\* other text is no JSON (JSONDecodeError)
JsonLoads(text) ==
    CASE text = JsonConversationText ->
            [kind |-> "array",
             items |-> << [kind |-> "object",
                           fields |-> [speaker |-> <<"C","u","s","t","o","m","e","r">>,
                                       text |-> <<"I"," ","a","m"," ","u","p","s","e","t">>,
                                       timestamp |-> TimeTen]],
                          [kind |-> "object",
                           fields |-> [speaker |-> <<"A","g","e","n","t">>,
                                       text |-> TextSorry]] >>]
      [] text = JsonObjectText ->
            [kind |-> "object", items |-> <<>>,
             fields |-> [speaker |-> <<"C","u","s","t","o","m","e","r">>,
                         text |-> <<"I"," ","a","m"," ","u","p","s","e","t">>]]
      [] text = JsonBadItemsText ->
            [kind |-> "array",
             items |-> << [kind |-> "object",
                           fields |-> [speaker |-> <<"C","u","s","t","o","m","e","r">>]],
                          [kind |-> "number", fields |-> [value |-> <<"5">>]],
                          [kind |-> "object",
                           fields |-> [speaker |-> <<" ">>, text |-> TextSorry]] >>]
      [] text = JsonTypedText ->
            [kind |-> "array",
             items |-> << [kind |-> "object",
                           fields |-> [speaker |-> PyValue("int", <<"5">>),
                                       text |-> <<" ","S","o","r","r","y"," ">>,
                                       timestamp |-> PyValue("int", <<"1","0">>)]],
                          [kind |-> "object",
                           fields |-> [speaker |-> <<"A","g","e","n","t">>,
                                       text |-> TextSorry,
                                       timestamp |-> PyValue("NoneType", <<"N","o","n","e">>)]] >>]
      [] JsonScalar(SolvedObjectBody(text)).ok ->
            [kind |-> "object", items |-> <<>>,
             fields |-> [solved |-> JsonScalar(SolvedObjectBody(text)).value]]
      [] text = <<"{","}">> ->
            [kind |-> "object", items |-> <<>>, fields |-> EmptyDict]
      [] text = <<"[","1","]">> ->
            [kind |-> "array",
             items |-> << [kind |-> "number", fields |-> [value |-> <<"1">>]] >>]
      [] JsonScalar(text).ok ->
            [kind |-> "scalar", items |-> <<>>]
      [] OTHER -> [kind |-> "invalid", items |-> <<>>]

\* one element of the JSON array: the segment appended, if any
JsonItemSegments(item) ==
    IF /\ item.kind = "object"
       /\ "speaker" \in DOMAIN item.fields
       /\ "text" \in DOMAIN item.fields
       /\ Strip(Str(item.fields.speaker)) # <<>>
       /\ Strip(Str(item.fields.text)) # <<>>
    THEN << [speaker   |-> Strip(Str(item.fields.speaker)),
             text      |-> Strip(Str(item.fields.text)),
             timestamp |-> Get(item.fields, "timestamp", NotAvailable)] >>
    ELSE <<>>

RECURSIVE ParseJsonItems(_)
ParseJsonItems(items) ==
    IF items = <<>> THEN <<>>
    ELSE JsonItemSegments(Head(items)) \o ParseJsonItems(Tail(items))

\* _parse_json_format
ParseJsonFormat(text) ==
    LET data == JsonLoads(text)
    IN  IF data.kind = "array" THEN ParseJsonItems(data.items) ELSE <<>>

\* a parser that reads a text of an unknown format as the simple format
ParseConversationText_DefaultSimple(text, format_type) ==
    IF Strip(text) = <<>> THEN <<>>
    ELSE IF format_type = "Timestamped Format" THEN ParseTimestampedFormat(Strip(text))
    ELSE IF format_type = "JSON Format" THEN ParseJsonFormat(Strip(text))
    ELSE ParseSimpleFormat(Strip(text))

\* parse_conversation_text
ParseConversationText(text, format_type) ==
    IF Strip(text) = <<>> THEN <<>>
    ELSE IF format_type = "Simple Format" THEN ParseSimpleFormat(Strip(text))
    ELSE IF format_type = "Timestamped Format" THEN ParseTimestampedFormat(Strip(text))
    ELSE IF format_type = "JSON Format" THEN ParseJsonFormat(Strip(text))
    ELSE <<>>

\* set(seg['speaker'] for seg in segments)
SpeakerSet(segments) == {segments[k].speaker : k \in 1..Len(segments)}

\* a validator that counts the speakers before it counts the segments
ValidateSegments_SpeakersFirst(segments) ==
    LET speakers == {segments[k].speaker : k \in 1..Len(segments)}
    IN  IF Cardinality(speakers) < 2
        THEN [valid |-> FALSE,
              error |-> "Conversation needs at least 2 different speakers",
              stats |-> [total_segments |-> Len(segments), speakers |-> speakers]]
        ELSE [valid |-> TRUE, error |-> "",
              stats |-> [total_segments |-> Len(segments), speakers |-> speakers]]

\* validate_segments (avg_text_length, a display statistic, is left out)
ValidateSegments(segments) ==
    LET speakers == SpeakerSet(segments)
        speaker_counts ==
            [sp \in speakers |-> Cardinality({k \in 1..Len(segments) : segments[k].speaker = sp})]
    IN  IF segments = <<>>
        THEN [valid |-> FALSE, error |-> "No valid segments found",
              stats |-> [total_segments |-> 0, speakers |-> {}]]
        ELSE IF Len(segments) < 2
        THEN [valid |-> FALSE,
              error |-> "Conversation too short (minimum 2 segments required)",
              stats |-> [total_segments |-> Len(segments), speakers |-> speakers]]
        ELSE IF Cardinality(speakers) < 2
        THEN [valid |-> FALSE,
              error |-> "Conversation needs at least 2 different speakers",
              stats |-> [total_segments |-> Len(segments), speakers |-> speakers]]
        ELSE [valid |-> TRUE, error |-> "",
              stats |-> [total_segments |-> Len(segments), speakers |-> speakers,
                         speaker_counts |-> speaker_counts]]

(***************************************************************************)
(* analyzer.py: SabadellSentimentAnalyzer.analyze_call_solution.           *)
(***************************************************************************)
\* "Return the solved flag for {transcribed_text}", a caller's template for
\* the resolution prompt
PromptSolution == << Lit("Return the solved flag for "), Field("transcribed_text") >>

\* the built-in resolution prompt, which ends with the transcript
DefaultSolutionPrompt(transcribed_text) ==
    [exc |-> "none", text |-> <<"Analyze the following ... Transcript: ", transcribed_text>>]

\* analyze_call_solution: exc is the exception that leaves the method
\* ("none" when it returns), value the integer returned, called whether the
\* completion service was called. Inside the try block every exception
\* (of the service, of json.loads, of .get on a value that is no
\* dictionary, of int) is turned into 0.
AnalyzeCallSolution(self, transcribed_text, custom_prompt, behaviour) ==
    IF ~self.api_connected THEN [exc |-> "none", called |-> FALSE, value |-> 0]
    ELSE LET prompt == IF custom_prompt # None /\ custom_prompt # <<>>
                       THEN Format(custom_prompt, [transcribed_text |-> transcribed_text])
                       ELSE DefaultSolutionPrompt(transcribed_text)
         IN  IF prompt.exc # "none"
             THEN [exc |-> prompt.exc, called |-> FALSE, value |-> 0]
             ELSE IF behaviour.kind = "raise"
             THEN [exc |-> "none", called |-> TRUE, value |-> 0]
             ELSE LET response_text == Strip(behaviour.text)
                      answer_data == JsonLoads(response_text)
                      solved_value == Get(answer_data.fields, "solved", PyValue("int", <<"0">>))
                  IN  [exc |-> "none", called |-> TRUE,
                       value |-> IF response_text = <<>> THEN 0
                                 ELSE IF answer_data.kind # "object" THEN 0
                                 ELSE IF PyInt(solved_value).exc # "none" THEN 0
                                 ELSE PyInt(solved_value).value]

(***************************************************************************)
(* The inputs the operations are driven with.                              *)
(***************************************************************************)
SpeakerCustomer == <<"C","u","s","t","o","m","e","r">>

SpeakerAgent == <<"A","g","e","n","t">>

TextUpset == <<"I"," ","a","m"," ","u","p","s","e","t">>

TextThanks == <<"T","h","a","n","k","s">>

TimeZero == <<"0","0",":","0","0">>

MsgTimeout == <<"t","i","m","e","o","u","t">>

\* segments with and without the optional 'timestamp' key
InputSegments ==
    {[speaker |-> SpeakerCustomer, text |-> TextUpset, timestamp |-> TimeZero],
     [speaker |-> SpeakerAgent, text |-> TextThanks, timestamp |-> TimeZero],
     [speaker |-> SpeakerCustomer, text |-> TextThanks, timestamp |-> TimeZero],
     [speaker |-> SpeakerCustomer, text |-> TextThanks]}

\* every list of at most n input segments
SegmentLists(n) == UNION {[1..k -> InputSegments] : k \in 0..n}

\* "Rate the {mood} of {speaker}": a field analyze_call_segment does not pass
PromptUnknownField == << Lit("Rate the "), Field("mood"), Lit(" of "), Field("speaker") >>

\* "{text} on a scale 1 { 5": a brace that opens a field and is never closed
PromptLiteralBrace == << Field("text"), Lit(" on a scale 1 "), LoneOpenBrace, Lit(" 5") >>

\* "Classify {}": a positional field, and no positional argument is passed
PromptPositional == << Lit("Classify "), Field("") >>

\* "Answer as {{json}} for {text}": escaped braces, which format accepts
PromptEscaped == << Lit("Answer as "), EscapedBrace, Lit("json"), EscapedBrace,
                    Lit(" for "), Field("text") >>

\* the custom_prompt arguments: None, the empty string, and templates
CustomPrompts ==
    {None, <<>>, PromptEscaped, PromptUnknownField, PromptLiteralBrace, PromptPositional}

Space == <<" ">>

\* "<label> <value>", one line of a reply
ReplyLine(label, value) == label \o Space \o value

ValPositivo == <<"P","o","s","i","t","i","v","o">>

ValNegativeUpper == <<"N","E","G","A","T","I","V","E">>

ValNeutral == <<"N","e","u","t","r","a","l">>

ValMuyNegativo == <<"m","u","y"," ","n","e","g","a","t","i","v","o">>

ValMixed == <<"m","i","x","e","d">>

\* "Negativo, no positivo": a value holding a negative and a positive word
ValBoth == <<"N","e","g","a","t","i","v","o",","," ","n","o"," ","p","o","s","i","t","i","v","o">>

ValAlta == <<"a","l","t","a">>

ValFourOfFive == <<"4","/","5">>

ValNivelTwo == <<"n","i","v","e","l"," ","2">>

ValOk == <<"o","k">>

LabelSentimentLower == <<"s","e","n","t","i","m","e","n","t",":">>

LabelSentimientoUpper == <<"S","E","N","T","I","M","I","E","N","T","O",":">>

LabelIntensityUpper == <<"I","N","T","E","N","S","I","T","Y",":">>

LabelIntensidadLower == <<"i","n","t","e","n","s","i","d","a","d",":">>

LabelContextLower == <<"c","o","n","t","e","x","t",":">>

\* the labels as the code spells them, and in other letter case
SentimentLabels ==
    {LabelSentimiento, LabelSentiment, LabelSentimentLower, LabelSentimientoUpper}

IntensityLabels ==
    {LabelIntensidad, LabelIntensity, LabelIntensityUpper, LabelIntensidadLower}

ContextLabels == {LabelContexto, LabelContext, LabelContextLower}

SentimentReplyValues ==
    {ValPositivo, ValNegativeUpper, ValNeutral, ValMuyNegativo, ValMixed, ValBoth}

DigitStrings == {<<d>> : d \in {"0","1","2","3","4","5","6","7","8","9"}}

IntensityReplyValues == DigitStrings \cup {<<>>, ValAlta, ValFourOfFive, ValNivelTwo}

SentimentReplyLines ==
    {ReplyLine(l, v) : l \in SentimentLabels, v \in SentimentReplyValues}

IntensityReplyLines ==
    {ReplyLine(l, v) : l \in IntensityLabels, v \in IntensityReplyValues}

ContextReplyLines == {ReplyLine(l, ValOk) : l \in ContextLabels}

\* reply texts of the completion service: empty, one labelled line, a
\* sentiment and an intensity line, two intensity lines, all three fields
Replies ==
    {<<>>, ValOk}
    \cup SentimentReplyLines \cup IntensityReplyLines \cup ContextReplyLines
    \cup {JoinLines(<<sl, il>>) : sl \in SentimentReplyLines, il \in IntensityReplyLines}
    \cup {JoinLines(<<ReplyLine(LabelIntensity, a), ReplyLine(LabelIntensidad, b)>>) :
            a \in {<<"5">>, <<"0">>}, b \in {<<"2">>, ValAlta}}
    \cup {JoinLines(<<sl, ReplyLine(LabelIntensidad, <<"4">>), cl>>) :
            sl \in SentimentReplyLines, cl \in ContextReplyLines}

\* the replies the service gives during a full call
ServiceReplies ==
    {<<>>,
     JoinLines(<<ReplyLine(LabelSentimiento, ValPositivo),
                 ReplyLine(LabelIntensidad, <<"5">>),
                 ReplyLine(LabelContexto, ValOk)>>),
     JoinLines(<<ReplyLine(LabelSentiment, ValNegativeUpper),
                 ReplyLine(LabelIntensity, <<"9">>)>>),
     JoinLines(<<ReplyLine(LabelSentimentLower, ValPositivo),
                 ReplyLine(LabelIntensityUpper, <<"4">>)>>),
     JoinLines(<<ReplyLine(LabelSentimiento, ValNeutral),
                 ReplyLine(LabelIntensidad, <<"0">>)>>)}

\* what self.co.chat does: return a reply text, or raise with a message
Behaviours(replies) ==
    [kind : {"reply"}, text : replies] \cup [kind : {"raise"}, text : {MsgTimeout}]

(***************************************************************************)
(* State.                                                                  *)
(***************************************************************************)
VARIABLES
    analyzer,           \* the SabadellSentimentAnalyzer object (self)
    entry,              \* the operation running or last run, "none" before any
    pc,                 \* its position: idle, loop, aggregate, done
    call_segments,      \* analyze_full_call's argument call_segments
    custom_prompt,      \* its argument custom_prompt
    analyzed_segments,  \* its local list analyzed_segments
    outcome,            \* "none" while running, "returned", or the exception raised
    result,             \* the dictionary returned
    invocations,        \* the segment indices analyze_call_segment was invoked for
    service_calls,      \* the calls of self.co.chat: the segment's index, and whether it raised
    tab,                \* the script run of an analysis tab: its inputs and what it did
    transcriber         \* the run of AudioTranscriber.transcribe_audio

vars == <<analyzer, entry, pc, call_segments, custom_prompt, analyzed_segments,
          outcome, result, invocations, service_calls, tab, transcriber>>

\* st.session_state.analyzer = None: no API key was configured
NoAnalyzer == [api_connected |-> FALSE, attrs |-> {}]

\* no tab has run
NoTab ==
    [name |-> "none", conversation_text |-> <<>>, format_type |-> "", clicked |-> FALSE,
     parse_called |-> FALSE, parsed |-> <<>>, validated |-> FALSE, valid |-> FALSE,
     error |-> "", segments_none |-> TRUE, resolution_called |-> FALSE,
     solved_indicator |-> 0, lexicon_scored |-> 0, shown |-> "nothing"]

NoResult == [analyzed_segments |-> <<>>]

\* no audio file has been submitted
NoTranscription == [step |-> "idle"]

\* the analyzer after construction, with the client built or not
Init ==
    /\ analyzer \in {Construct(TRUE), Construct(FALSE)}
    /\ transcriber = NoTranscription
    /\ entry = "none"
    /\ pc = "idle"
    /\ call_segments = <<>>
    /\ custom_prompt = None
    /\ analyzed_segments = <<>>
    /\ outcome = "none"
    /\ result = NoResult
    /\ invocations = <<>>
    /\ service_calls = <<>>
    /\ tab = NoTab

\* analyze_full_call up to its loop: the empty-list check
StartFullCall(segs, prompt) ==
    /\ entry' = "analyze_full_call"
    /\ call_segments' = segs
    /\ custom_prompt' = prompt
    /\ analyzed_segments' = <<>>
    /\ invocations' = <<>>
    /\ service_calls' = <<>>
    /\ result' = NoResult
    /\ IF segs = <<>>
       THEN outcome' = "ValueError" /\ pc' = "done"
       ELSE outcome' = "none" /\ pc' = "loop"
    /\ UNCHANGED <<analyzer, transcriber>>

AnalyzeFullCall ==
    /\ pc = "idle"
    /\ \E segs \in SegmentLists(MaxSegs), prompt \in CustomPrompts :
          StartFullCall(segs, prompt)
    /\ UNCHANGED tab

\* the loop inserting each result at the front of the list
ScoreSegmentWith_Prepend(behaviour) ==
    LET idx == Len(analyzed_segments) + 1
        r   == AnalyzeCallSegment(analyzer, call_segments[idx], custom_prompt, behaviour)
    IN  /\ invocations' = Append(invocations, idx)
        /\ service_calls' =
              IF r.called
              THEN Append(service_calls, [segment |-> idx, raised |-> behaviour.kind = "raise"])
              ELSE service_calls
        /\ IF r.exc = "none"
           THEN /\ analyzed_segments' = <<r.value>> \o analyzed_segments
                /\ outcome' = outcome
                /\ pc' = IF idx = Len(call_segments) THEN "aggregate" ELSE "loop"
           ELSE /\ analyzed_segments' = analyzed_segments
                /\ outcome' = r.exc
                /\ pc' = "done"
        /\ UNCHANGED <<analyzer, transcriber, entry, call_segments, custom_prompt, result, tab>>

\* the loop scoring a segment again when its scoring failed
ScoreSegmentWith_Retry(behaviour) ==
    LET idx == Len(analyzed_segments) + 1
        r   == AnalyzeCallSegment(analyzer, call_segments[idx], custom_prompt, behaviour)
    IN  /\ invocations' = Append(invocations, idx)
        /\ service_calls' =
              IF r.called
              THEN Append(service_calls, [segment |-> idx, raised |-> behaviour.kind = "raise"])
              ELSE service_calls
        /\ IF r.exc = "none"
           THEN /\ analyzed_segments' =
                      IF r.value.analysis_status = "error" /\ Len(invocations) < 2 * MaxSegs
                      THEN analyzed_segments
                      ELSE Append(analyzed_segments, r.value)
                /\ outcome' = outcome
                /\ pc' = IF Len(analyzed_segments') = Len(call_segments)
                         THEN "aggregate" ELSE "loop"
           ELSE /\ analyzed_segments' = analyzed_segments
                /\ outcome' = r.exc
                /\ pc' = "done"
        /\ UNCHANGED <<analyzer, transcriber, entry, call_segments, custom_prompt, result, tab>>

\* one iteration of the loop of analyze_full_call: analyze_call_segment on
\* the next segment, its result appended, or its exception leaving the call
ScoreSegmentWith(behaviour) ==
    LET idx == Len(analyzed_segments) + 1
        r   == AnalyzeCallSegment(analyzer, call_segments[idx], custom_prompt, behaviour)
    IN  /\ invocations' = Append(invocations, idx)
        /\ service_calls' =
              IF r.called
              THEN Append(service_calls, [segment |-> idx, raised |-> behaviour.kind = "raise"])
              ELSE service_calls
        /\ IF r.exc = "none"
           THEN /\ analyzed_segments' = Append(analyzed_segments, r.value)
                /\ outcome' = outcome
                /\ pc' = IF idx = Len(call_segments) THEN "aggregate" ELSE "loop"
           ELSE /\ analyzed_segments' = analyzed_segments
                /\ outcome' = r.exc
                /\ pc' = "done"
        /\ UNCHANGED <<analyzer, transcriber, entry, call_segments, custom_prompt, result, tab>>

ScoreSegment ==
    /\ pc = "loop"
    /\ \E behaviour \in Behaviours(ServiceReplies) : ScoreSegmentWith(behaviour)

\* the rest of analyze_full_call: filtering, improvement, summary, return
ReturnResult ==
    /\ pc = "aggregate"
    /\ pc' = "done"
    /\ IF AggregationException(analyzer) = "none"
       THEN outcome' = "returned" /\ result' = BuildResult(analyzed_segments)
       ELSE outcome' = AggregationException(analyzer) /\ result' = result
    /\ UNCHANGED <<analyzer, transcriber, entry, call_segments, custom_prompt, analyzed_segments,
                   invocations, service_calls, tab>>

Next == AnalyzeFullCall \/ ScoreSegment \/ ReturnResult

Spec == Init /\ [][Next]_vars


\* analyze_call_segment called directly on one segment, with any reply
AnalyzeOneSegment ==
    /\ pc = "idle"
    /\ \E seg \in InputSegments, prompt \in CustomPrompts, behaviour \in Behaviours(Replies) :
          LET r == AnalyzeCallSegment(analyzer, seg, prompt, behaviour)
          IN  /\ entry' = "analyze_call_segment"
              /\ call_segments' = <<seg>>
              /\ custom_prompt' = prompt
              /\ invocations' = <<1>>
              /\ service_calls' =
                    IF r.called
                    THEN <<[segment |-> 1, raised |-> behaviour.kind = "raise"]>>
                    ELSE <<>>
              /\ analyzed_segments' = IF r.exc = "none" THEN <<r.value>> ELSE <<>>
              /\ outcome' = IF r.exc = "none" THEN "returned" ELSE r.exc
              /\ pc' = "done"
              /\ UNCHANGED <<analyzer, transcriber, result, tab>>

NextSegment == AnalyzeOneSegment

SpecSegment == Init /\ [][NextSegment]_vars


(***************************************************************************)
(* Properties of analyze_full_call, checked under Spec.                    *)
(***************************************************************************)
FullCallDone == entry = "analyze_full_call" /\ pc = "done"

\* the completion service was called for every segment and raised each time
EveryServiceCallRaised ==
    /\ Len(service_calls) = Len(call_segments)
    /\ \A k \in 1..Len(service_calls) : service_calls[k].raised

\* C1: with the client constructed, a non-empty list of N segments and the
\* completion-service call raising for every segment, analyze_full_call does
\* not raise and returns total_segments = N, error_count = N and
\* successful_analyses = 0.
C1_ErrorContainment ==
    (/\ entry = "analyze_full_call"
     /\ analyzer.api_connected
     /\ call_segments # <<>>
     /\ EveryServiceCallRaised)
    => /\ outcome \in {"none", "returned"}
       /\ pc = "done" =>
            /\ outcome = "returned"
            /\ result.metrics.total_segments = Len(call_segments)
            /\ result.metrics.error_count = Len(call_segments)
            /\ result.metrics.successful_analyses = 0

C1_Witness ==
    /\ FullCallDone
    /\ analyzer.api_connected
    /\ Len(call_segments) >= 2
    /\ EveryServiceCallRaised
    /\ outcome = "returned"

\* C3: with the client construction failed, analyze_full_call on a non-empty
\* list of N segments calls the service for none, gives every segment the
\* context 'Error: API not connected' and returns a result with
\* error_count = total_segments = N instead of raising.
C3_DisconnectedCallCompletes ==
    (FullCallDone /\ ~analyzer.api_connected /\ call_segments # <<>>)
    => /\ service_calls = <<>>
       /\ \A k \in 1..Len(analyzed_segments) :
             analyzed_segments[k].context = ErrorContextPrefix \o MsgApiNotConnected
       /\ outcome = "returned"
       /\ result.metrics.error_count = Len(call_segments)
       /\ result.metrics.total_segments = Len(call_segments)

\* C4: in every result analyze_full_call returns, error_count +
\* successful_analyses = total_segments = len(analyzed_segments).
C4_CountsPartition ==
    outcome = "returned" =>
        /\ result.metrics.error_count + result.metrics.successful_analyses
              = result.metrics.total_segments
        /\ result.metrics.total_segments = Len(result.analyzed_segments)

C4_Witness ==
    /\ outcome = "returned"
    /\ result.metrics.error_count >= 1
    /\ result.metrics.successful_analyses >= 1

\* C5: the returned analyzed_segments has the length and the order of the
\* input list: entry i carries the speaker, the text (as original_text) and
\* the timestamp ('N/A' for a segment without one) of input segment i,
\* scored or degraded to an error.
C5_SameOrderAndLength ==
    outcome = "returned" =>
        /\ Len(result.analyzed_segments) = Len(call_segments)
        /\ \A k \in 1..Len(call_segments) :
              /\ result.analyzed_segments[k].speaker = call_segments[k].speaker
              /\ result.analyzed_segments[k].original_text = call_segments[k].text
              /\ result.analyzed_segments[k].timestamp
                    = Get(call_segments[k], "timestamp", NotAvailable)

C5_Witness ==
    /\ outcome = "returned"
    /\ Len(call_segments) >= 2
    /\ call_segments[1].text # call_segments[2].text
    /\ call_segments[1].speaker # call_segments[2].speaker
    /\ result.analyzed_segments[1].analysis_status = "error"
    /\ result.analyzed_segments[2].analysis_status = "success"

\* C6: an empty segment list is rejected with a ValueError before any
\* scoring call, and the empty list is the only input for which
\* analyze_full_call ends in a failure instead of a result.
C6_OnlyEmptyInputRejected ==
    FullCallDone =>
        /\ call_segments = <<>> =>
              outcome = "ValueError" /\ invocations = <<>> /\ service_calls = <<>>
        /\ outcome # "returned" => call_segments = <<>>

\* C8: during one analyze_full_call each segment is scored once and in input
\* order (analyze_call_segment is invoked for segments 1, 2, ... with no
\* repeat, with at most one service call each), and no later step changes a
\* segment already scored.
C8_ScoredOnceInOrder ==
    /\ [](entry = "analyze_full_call" =>
            /\ \A k \in 1..Len(invocations) : invocations[k] = k
            /\ Len(invocations) <= Len(call_segments)
            /\ \A j, k \in 1..Len(service_calls) :
                  j < k => service_calls[j].segment < service_calls[k].segment
            /\ outcome = "returned" =>
                  /\ Len(invocations) = Len(call_segments)
                  /\ result.analyzed_segments = analyzed_segments)
    /\ [][pc # "idle" =>
            /\ Len(analyzed_segments') >= Len(analyzed_segments)
            /\ \A k \in 1..Len(analyzed_segments) :
                  analyzed_segments'[k] = analyzed_segments[k]]_vars

C8_Witness ==
    /\ outcome = "returned"
    /\ Len(call_segments) >= 2
    /\ invocations = <<1, 2>>
    /\ Len(service_calls) = 2
    /\ service_calls[1].raised


\* the segment of service call c was scored, and the call raised
RaisedFor(c) ==
    /\ service_calls[c].raised
    /\ service_calls[c].segment <= Len(analyzed_segments)

\* once the service was called, the call analysis runs to its result and
\* scores every segment
RemainingSegmentsScored ==
    (FullCallDone /\ service_calls # <<>>)
    => /\ outcome = "returned"
       /\ Len(analyzed_segments) = Len(call_segments)
       /\ Len(service_calls) = Len(call_segments)

\* C12 as stated: a per-segment scoring failure, a reply that holds none of
\* the labelled fields included, downgrades the segment to neutral,
\* intensity 3 and analysis_status error, and the remaining segments are
\* still scored.
C12_MalformedReplyIsError ==
    entry = "analyze_full_call" =>
        /\ \A c \in 1..Len(service_calls) :
              RaisedFor(c) =>
                  LET s == analyzed_segments[service_calls[c].segment]
                  IN  s.sentiment = "neutral" /\ s.intensity = 3
                      /\ s.analysis_status = "error"
        /\ \A k \in 1..Len(analyzed_segments) :
              analyzed_segments[k].raw_response = <<>> =>
                  /\ analyzed_segments[k].sentiment = "neutral"
                  /\ analyzed_segments[k].intensity = 3
                  /\ analyzed_segments[k].analysis_status = "error"
        /\ RemainingSegmentsScored

\* C12 amended: a service call that raises downgrades its segment to
\* neutral, intensity 3 and analysis_status error; a reply that holds none
\* of the labelled fields is no failure and gives neutral, intensity 3 with
\* analysis_status success; in both cases the remaining segments are still
\* scored.
C12_ServiceFailureDowngrades ==
    entry = "analyze_full_call" =>
        /\ \A c \in 1..Len(service_calls) :
              RaisedFor(c) =>
                  LET s == analyzed_segments[service_calls[c].segment]
                  IN  s.sentiment = "neutral" /\ s.intensity = 3
                      /\ s.analysis_status = "error"
        /\ \A k \in 1..Len(analyzed_segments) :
              analyzed_segments[k].raw_response = <<>> =>
                  /\ analyzed_segments[k].sentiment = "neutral"
                  /\ analyzed_segments[k].intensity = 3
                  /\ analyzed_segments[k].analysis_status = "success"
        /\ RemainingSegmentsScored

C12_Witness ==
    /\ FullCallDone
    /\ outcome = "returned"
    /\ Len(call_segments) >= 2
    /\ Len(service_calls) = Len(call_segments)
    /\ service_calls[1].raised
    /\ analyzed_segments[1].analysis_status = "error"
    /\ analyzed_segments[2].raw_response = <<>>
    /\ analyzed_segments[2].analysis_status = "success"


(***************************************************************************)
(* Properties of analyze_call_segment and of the reply parser, checked     *)
(* under SpecSegment.                                                      *)
(***************************************************************************)
SegmentCallDone == entry = "analyze_call_segment" /\ pc = "done"

\* C2: for every segment with a speaker and a text, every custom prompt
\* template and every behaviour of the completion service,
\* analyze_call_segment returns a result dictionary and does not raise.
C2_SegmentScorerNeverRaises ==
    SegmentCallDone => outcome = "returned" /\ Len(analyzed_segments) = 1

DigitChars == <<"0","1","2","3","4","5","6","7","8","9">>

\* the intensity the claim gives for each digit 0..9: 0 -> 1, 1..5 kept,
\* 6..9 -> 5
StoredForDigit == <<1, 1, 2, 3, 4, 5, 5, 5, 5, 5>>

\* replies with no intensity field, or with one whose value has no digit
RepliesWithoutDigit ==
    {<<>>, ValOk} \cup SentimentReplyLines \cup ContextReplyLines
    \cup {ReplyLine(l, v) : l \in {LabelIntensidad, LabelIntensity}, v \in {<<>>, ValAlta}}

\* C9: every scored segment has sentiment in {positive, neutral, negative}
\* and an integer intensity in 1..5; an intensity field holding the digit d
\* is stored as max(1, min(5, d)); without an intensity digit, or on an
\* error, the intensity is the default 3.
C9_SentimentAndIntensityRange ==
    \A k \in 1..Len(analyzed_segments) :
        LET s == analyzed_segments[k]
        IN  /\ s.sentiment \in {"positive", "neutral", "negative"}
            /\ s.intensity \in 1..5
            /\ \A d \in 1..10, l \in {LabelIntensidad, LabelIntensity} :
                  (s.analysis_status = "success"
                     /\ s.raw_response = ReplyLine(l, <<DigitChars[d]>>))
                  => s.intensity = StoredForDigit[d]
            /\ (s.analysis_status = "success" /\ s.raw_response \in RepliesWithoutDigit)
                  => s.intensity = 3
            /\ s.analysis_status = "error" => s.sentiment = "neutral" /\ s.intensity = 3

C9_Witness ==
    /\ SegmentCallDone
    /\ Len(analyzed_segments) = 1
    /\ analyzed_segments[1].analysis_status = "success"
    /\ analyzed_segments[1].raw_response = ReplyLine(LabelIntensity, <<"9">>)
    /\ analyzed_segments[1].intensity = 5

\* the sentiment each value of SentimentReplyValues stands for
SentimentOfValue(v) ==
    IF v \in {ValPositivo, ValBoth} THEN "positive"
    ELSE IF v \in {ValNegativeUpper, ValMuyNegativo} THEN "negative"
    ELSE "neutral"

\* C10: the labels are recognised in any letter case: a reply line such as
\* 'sentiment: Positivo' or 'INTENSITY: 5' sets the field as the capitalised
\* label does.
C10_LabelsInAnyCase ==
    \A k \in 1..Len(analyzed_segments) :
        LET s == analyzed_segments[k]
        IN  s.analysis_status = "success" =>
              /\ \A l \in SentimentLabels, v \in SentimentReplyValues :
                    s.raw_response = ReplyLine(l, v) => s.sentiment = SentimentOfValue(v)
              /\ \A l \in IntensityLabels, d \in 1..10 :
                    s.raw_response = ReplyLine(l, <<DigitChars[d]>>)
                    => s.intensity = StoredForDigit[d]
              /\ \A l \in ContextLabels :
                    s.raw_response = ReplyLine(l, ValOk) => s.context = ValOk


\* replies with no sentiment field: empty, unlabelled text, one intensity
\* line, one context line
RepliesWithoutSentiment ==
    {<<>>, ValOk}
    \cup {ReplyLine(l, v) : l \in {LabelIntensidad, LabelIntensity}, v \in IntensityReplyValues}
    \cup {ReplyLine(l, ValOk) : l \in {LabelContexto, LabelContext}}

\* C11: for a recognised sentiment field the stored sentiment is positive
\* when the lower-cased value contains 'positivo' or 'positive', otherwise
\* negative when it contains 'negativo' or 'negative', otherwise neutral; a
\* reply with no sentiment field gives a neutral segment with
\* analysis_status success.
C11_SentimentBySubstring ==
    \A k \in 1..Len(analyzed_segments) :
        LET s == analyzed_segments[k]
        IN  /\ \A l \in {LabelSentimiento, LabelSentiment}, v \in SentimentReplyValues :
                  s.raw_response = ReplyLine(l, v)
                  => s.sentiment = SentimentOfValue(v) /\ s.analysis_status = "success"
            /\ s.raw_response \in RepliesWithoutSentiment
                  => s.sentiment = "neutral" /\ s.analysis_status = "success"

C11_Witness ==
    /\ SegmentCallDone
    /\ Len(analyzed_segments) = 1
    /\ analyzed_segments[1].raw_response = ReplyLine(LabelSentimiento, ValBoth)
    /\ analyzed_segments[1].sentiment = "positive"


(***************************************************************************)
(* app.py: the two analysis tabs.  One action is one run of the tab's      *)
(* script, from its inputs (the conversation text, the format selected,    *)
(* whether the button was pressed) to the calls it makes; every run starts *)
(* from fresh locals, so a behaviour holds one run.                        *)
(***************************************************************************)
LineCustomer == <<"C","u","s","t","o","m","e","r",":"," ","I"," ","a","m"," ","u","p","s","e","t">>

LineAgent == <<"A","g","e","n","t",":"," ","S","o","r","r","y">>

LineNoText == <<"C","u","s","t","o","m","e","r",":">>

LineNoColon == <<"h","o","l","a">>

LineStampedCustomer == <<"[","0","0",":","1","0","]"," ","C","u","s","t","o","m","e","r",":"," ","I"," ","a","m"," ","u","p","s","e","t">>

LineStampedAgent == <<"[","0",":","0","5","]"," ","A","g","e","n","t",":"," ","S","o","r","r","y">>

ConversationLines ==
    {LineCustomer, LineAgent, LineNoText, LineNoColon, LineStampedCustomer, LineStampedAgent}

\* the texts entered: up to MaxLines lines, a blank text, JSON documents
ConversationTexts ==
    {JoinLines(ls) : ls \in UNION {[1..k -> ConversationLines] : k \in 0..MaxLines}}
    \cup {<<" ">>, JsonConversationText, JsonObjectText, JsonBadItemsText}

\* the options of the format selectbox
FormatTypes == {"Simple Format", "Timestamped Format", "JSON Format"}

\* the sidebar's custom prompt: None (box unchecked) or the text entered
TabPrompts == {None, PromptUnknownField}

SolvedOne == <<"{","\"","s","o","l","v","e","d","\"",":"," ","1","}">>

SolvedZero == <<"{","\"","s","o","l","v","e","d","\"",":"," ","0","}">>

SolvedYes == <<"y","e","s">>

\* replies of the completion service to the resolution prompt
SolutionReplies == {<<>>, SolvedOne, SolvedZero, SolvedYes}

\* replies of the completion service to a segment prompt during a tab's run
TabReplies ==
    {JoinLines(<<ReplyLine(LabelSentimiento, ValPositivo),
                 ReplyLine(LabelIntensidad, <<"5">>)>>)}

\* the preview column of a tab that ignores a failed validation
PreviewSegments_KeepInvalid(conversation_text, format_type) ==
    IF Strip(conversation_text) = <<>>
    THEN [parse_called |-> FALSE, parsed |-> <<>>, validated |-> FALSE, valid |-> FALSE,
          error |-> "", segments_none |-> TRUE, segments |-> <<>>]
    ELSE LET segments == ParseConversationText(conversation_text, format_type)
             validation == ValidateSegments(segments)
         IN  IF segments = <<>>
             THEN [parse_called |-> TRUE, parsed |-> segments, validated |-> FALSE,
                   valid |-> FALSE, error |-> "", segments_none |-> FALSE,
                   segments |-> segments]
             ELSE [parse_called |-> TRUE, parsed |-> segments, validated |-> TRUE,
                   valid |-> validation.valid, error |-> validation.error,
                   segments_none |-> FALSE, segments |-> segments]

\* the preview column of both tabs: the local segments after the parse and
\* the validation (None on a blank text and on a failed validation, the
\* empty list when the parse yields no segment)
PreviewSegments(conversation_text, format_type) ==
    IF Strip(conversation_text) = <<>>
    THEN [parse_called |-> FALSE, parsed |-> <<>>, validated |-> FALSE, valid |-> FALSE,
          error |-> "", segments_none |-> TRUE, segments |-> <<>>]
    ELSE LET segments == ParseConversationText(conversation_text, format_type)
             validation == ValidateSegments(segments)
         IN  IF segments = <<>>
             THEN [parse_called |-> TRUE, parsed |-> segments, validated |-> FALSE,
                   valid |-> FALSE, error |-> "", segments_none |-> FALSE,
                   segments |-> segments]
             ELSE IF ~validation.valid
             THEN [parse_called |-> TRUE, parsed |-> segments, validated |-> TRUE,
                   valid |-> FALSE, error |-> validation.error, segments_none |-> TRUE,
                   segments |-> <<>>]
             ELSE [parse_called |-> TRUE, parsed |-> segments, validated |-> TRUE,
                   valid |-> TRUE, error |-> "", segments_none |-> FALSE,
                   segments |-> segments]

\* the tab record after the preview column
TabAfterPreview(name, conversation_text, format_type, clicked, pv) ==
    [name |-> name, conversation_text |-> conversation_text, format_type |-> format_type,
     clicked |-> clicked, parse_called |-> pv.parse_called, parsed |-> pv.parsed,
     validated |-> pv.validated, valid |-> pv.valid, error |-> pv.error,
     segments_none |-> pv.segments_none, resolution_called |-> FALSE,
     solved_indicator |-> 0, lexicon_scored |-> 0, shown |-> "nothing"]

\* the run ends without a call of the analyzer
NoAnalysis ==
    /\ pc' = "done"
    /\ UNCHANGED <<analyzer, transcriber, entry, call_segments, custom_prompt, analyzed_segments,
                   outcome, result, invocations, service_calls>>

\* show_text_analysis_tab up to its call of analyze_full_call
ShowTextAnalysisTab ==
    /\ pc = "idle"
    /\ \E conversation_text \in ConversationTexts, format_type \in FormatTypes :
          LET pv == PreviewSegments(conversation_text, format_type)
          IN  \E clicked \in BOOLEAN :
                /\ tab' = TabAfterPreview("text", conversation_text, format_type, clicked, pv)
                /\ IF analyzer = NoAnalyzer THEN NoAnalysis
                   ELSE IF pv.segments_none \/ pv.segments = <<>> THEN NoAnalysis
                   ELSE IF clicked
                   THEN \E prompt \in TabPrompts : StartFullCall(pv.segments, prompt)
                   ELSE NoAnalysis

\* any(alias in seg['speaker'].lower() for alias in ['cliente', 'customer', 'client'])
VaderIsCustomer(seg) ==
    \E alias \in {AliasCliente, AliasCustomer, AliasClient} : Contains(Lower(seg.speaker), alias)

\* show_vader_analysis_tab: the customer filter, the resolution call and
\* the lexicon scoring of every customer segment
ShowVaderAnalysisTab ==
    /\ pc = "idle"
    /\ \E conversation_text \in ConversationTexts, format_type \in FormatTypes :
          LET pv == PreviewSegments(conversation_text, format_type)
              customer_segments == SelectSeq(pv.segments, VaderIsCustomer)
          IN  \E clicked \in BOOLEAN :
                LET shown_tab ==
                        TabAfterPreview("vader", conversation_text, format_type, clicked, pv)
                IN  /\ IF pv.segments_none \/ ~clicked
                       THEN tab' = shown_tab
                       ELSE IF customer_segments = <<>>
                       THEN tab' = [shown_tab EXCEPT !.shown = "error"]
                       ELSE IF analyzer = NoAnalyzer
                       THEN tab' = [shown_tab EXCEPT !.resolution_called = TRUE,
                                                     !.shown = "AttributeError"]
                       ELSE \E behaviour \in Behaviours(SolutionReplies) :
                              tab' = [shown_tab EXCEPT
                                        !.resolution_called = TRUE,
                                        !.solved_indicator =
                                            AnalyzeCallSolution(analyzer, conversation_text,
                                                                None, behaviour).value,
                                        !.lexicon_scored = Len(customer_segments),
                                        !.shown = "metrics"]
                    /\ NoAnalysis

\* the loop of analyze_full_call when the text tab called it
ScoreSegmentInTab ==
    /\ pc = "loop"
    /\ tab.name = "text"
    /\ \E behaviour \in Behaviours(TabReplies) : ScoreSegmentWith(behaviour)

\* the end of the text tab's try block: show_results, or the except
\* branch's error message
ShowOutcome ==
    /\ pc = "done"
    /\ tab.name = "text"
    /\ entry = "analyze_full_call"
    /\ tab.shown = "nothing"
    /\ tab' = [tab EXCEPT !.shown = IF outcome = "returned" THEN "results" ELSE "error"]
    /\ UNCHANGED <<analyzer, transcriber, entry, pc, call_segments, custom_prompt,
                   analyzed_segments,
                   outcome, result, invocations, service_calls>>

\* the application after the sidebar: the analyzer built, or none
InitApp ==
    /\ analyzer \in {Construct(TRUE), Construct(FALSE), NoAnalyzer}
    /\ transcriber = NoTranscription
    /\ entry = "none"
    /\ pc = "idle"
    /\ call_segments = <<>>
    /\ custom_prompt = None
    /\ analyzed_segments = <<>>
    /\ outcome = "none"
    /\ result = NoResult
    /\ invocations = <<>>
    /\ service_calls = <<>>
    /\ tab = NoTab

NextApp ==
    \/ ShowTextAnalysisTab
    \/ ShowVaderAnalysisTab
    \/ ScoreSegmentInTab
    \/ ReturnResult
    \/ ShowOutcome

SpecApp == InitApp /\ [][NextApp]_vars

(***************************************************************************)
(* Properties of the tabs, checked under SpecApp.                          *)
(***************************************************************************)
\* a scoring operation was started: analyze_full_call in the text tab, the
\* resolution call or the lexicon scoring in the VADER tab
ScoringStarted ==
    \/ tab.name = "text" /\ entry = "analyze_full_call"
    \/ tab.name = "vader" /\ (tab.resolution_called \/ tab.lexicon_scored > 0)

\* C7: in both tabs scoring is reached only when the parse returned a
\* non-empty segment list and validate_segments returned valid; after a
\* parse that yields no segment or a failed validation no scoring starts.
C7_ScoringOnlyAfterValidation ==
    ScoringStarted =>
        /\ tab.parse_called
        /\ tab.parsed # <<>>
        /\ tab.validated
        /\ tab.valid
        /\ tab.name = "text" => call_segments = tab.parsed

C7_Witness ==
    /\ tab.name = "vader"
    /\ tab.resolution_called
    /\ tab.lexicon_scored >= 1
    /\ tab.valid


(***************************************************************************)
(* The customer filters of the two paths, applied to one segment list:     *)
(* _filter_by_speaker_type in analyze_full_call, the list comprehension of *)
(* show_vader_analysis_tab and the one of show_results.                    *)
(***************************************************************************)
\* the longest segment list the filters are applied to
MaxFiltered == 3

SpeakerClienteUpper == <<"C","L","I","E","N","T","E">>

\* an agent's label that contains an alias of the customer
SpeakerCustomerService == <<"C","u","s","t","o","m","e","r"," ","S","e","r","v","i","c","e">>

FilterSpeakers == {SpeakerCustomer, SpeakerClienteUpper, SpeakerAgent, SpeakerCustomerService}

FilterSegments == [speaker : FilterSpeakers, text : {TextThanks}]

\* s['speaker'].lower() in ['customer', 'cliente', 'client']
ShowResultsIsCustomer(s) == Lower(s.speaker) \in {AliasCustomer, AliasCliente, AliasClient}

InitFilter ==
    /\ analyzer = Construct(TRUE)
    /\ transcriber = NoTranscription
    /\ entry = "none"
    /\ pc = "idle"
    /\ call_segments \in UNION {[1..k -> FilterSegments] : k \in 0..MaxFiltered}
    /\ custom_prompt = None
    /\ analyzed_segments = <<>>
    /\ outcome = "none"
    /\ result = NoResult
    /\ invocations = <<>>
    /\ service_calls = <<>>
    /\ tab = NoTab

\* the three filters on the same list
FilterCustomers ==
    /\ pc = "idle"
    /\ entry' = "customer_filter"
    /\ pc' = "done"
    /\ outcome' = "returned"
    /\ result' =
          [customer_trajectory     |-> FilterBySpeakerType(call_segments, "customer"),
           vader_customer_segments |-> SelectSeq(call_segments, VaderIsCustomer),
           shown_customer_segments |-> SelectSeq(call_segments, ShowResultsIsCustomer)]
    /\ UNCHANGED <<analyzer, transcriber, call_segments, custom_prompt, analyzed_segments,
                   invocations, service_calls, tab>>

NextFilter == FilterCustomers

SpecFilter == InitFilter /\ [][NextFilter]_vars

\* the segments of segs whose lower-cased speaker is 'customer', 'cliente'
\* or 'client', in order
AliasMembers(segs) ==
    SelectSeq(segs, LAMBDA s : \/ Lower(s.speaker) = AliasCustomer
                               \/ Lower(s.speaker) = AliasCliente
                               \/ Lower(s.speaker) = AliasClient)

\* C13: on the categorical and on the lexicon path the customer subsequence
\* is exactly the segments whose lower-cased speaker is a member of
\* {customer, cliente, client}, in input order, and both paths select the
\* same subsequence of the same list.
C13_SameCustomerSubsequence ==
    entry = "customer_filter" =>
        /\ result.customer_trajectory = AliasMembers(call_segments)
        /\ result.shown_customer_segments = AliasMembers(call_segments)
        /\ result.vader_customer_segments = AliasMembers(call_segments)
        /\ result.vader_customer_segments = result.customer_trajectory


(***************************************************************************)
(* app.py: the metrics of the lexicon path (show_vader_analysis_tab from   *)
(* its line 419), as a function of the Compound column of df_results and   *)
(* of the stored solved_indicator.  Scores are whole hundredths; a mean or *)
(* a difference of means is the fraction num / den of hundredths.          *)
(***************************************************************************)
\* the largest number of customer segments scored
MaxCustomers == 31

\* a start or stop of a slice brought into 0..n as Python does
SliceBound(n, i) == IF i < 0 THEN Max(0, n + i) ELSE Min(i, n)

\* df.iloc[start:stop] on n rows: the 0-based positions of the rows taken
PySlice(n, start, stop) ==
    LET a == SliceBound(n, start)
        b == SliceBound(n, stop)
    IN  [k \in 1..Max(0, b - a) |-> a + k - 1]

\* a middle window of five rows starting at the midpoint
MiddleWindow_FromMidpoint(n) == PySlice(n, n \div 2, (n \div 2) + 5)

\* the window of five rows around the midpoint
MiddleWindow(n) ==
    LET mid_index == n \div 2
        start_mid == Max(0, mid_index - 2)
        end_mid   == start_mid + 5
    IN  PySlice(n, start_mid, end_mid)

\* the windows with a short call split into its first and its last row
VaderWindows_FirstAndLast(n) ==
    IF n < 6
    THEN [first |-> PySlice(n, 0, 1), middle |-> PySlice(n, 0, n), last |-> PySlice(n, -1, n)]
    ELSE IF n < 10
    THEN [first |-> PySlice(n, 0, 2), middle |-> PySlice(n, (n \div 2) - 1, (n \div 2) + 1),
          last |-> PySlice(n, -2, n)]
    ELSE IF n < 30
    THEN [first |-> PySlice(n, 0, 3), middle |-> MiddleWindow(n), last |-> PySlice(n, -3, n)]
    ELSE [first |-> PySlice(n, 0, 5), middle |-> MiddleWindow(n), last |-> PySlice(n, -5, n)]

\* the rows each of first_avg, middle_avg and last_avg is the mean of, for
\* total_segments = n
VaderWindows(n) ==
    IF n < 6
    THEN [first |-> PySlice(n, 0, n), middle |-> PySlice(n, 0, n), last |-> PySlice(n, 0, n)]
    ELSE IF n < 10
    THEN LET mid_index == n \div 2
         IN  [first  |-> PySlice(n, 0, 2),
              middle |-> IF n % 2 = 0
                         THEN PySlice(n, mid_index - 1, mid_index + 1)
                         ELSE IF mid_index - 1 >= 0
                         THEN PySlice(n, mid_index - 1, mid_index + 1)
                         ELSE <<mid_index>>,
              last   |-> PySlice(n, -2, n)]
    ELSE IF n < 30
    THEN [first |-> PySlice(n, 0, 3), middle |-> MiddleWindow(n), last |-> PySlice(n, -3, n)]
    ELSE [first |-> PySlice(n, 0, 5), middle |-> MiddleWindow(n), last |-> PySlice(n, -5, n)]

RECURSIVE SumCompound(_, _)
SumCompound(rows, window) ==
    IF window = <<>> THEN 0
    ELSE rows[Head(window) + 1].Compound + SumCompound(rows, Tail(window))

\* df.iloc[...]["Compound"].mean()
MeanCompound(rows, window) == [num |-> SumCompound(rows, window), den |-> Len(window)]

\* x - y
FracSub(x, y) == [num |-> x.num * y.den - y.num * x.den, den |-> x.den * y.den]

\* x < y, for positive denominators
FracLess(x, y) == x.num * y.den < y.num * x.den

\* the recovery index without the cap at zero of an unsolved call
RecoveryIndex_Uncapped(first_avg, last_avg, solved_indicator) ==
    LET d == FracSub(last_avg, first_avg)
    IN  IF solved_indicator = 1
        THEN [num |-> d.num + 100 * d.den, den |-> 2 * d.den]
        ELSE d

\* sentiment_recovery_index
RecoveryIndex(first_avg, last_avg, solved_indicator) ==
    LET d == FracSub(last_avg, first_avg)
    IN  IF solved_indicator = 1
        THEN IF FracLess(last_avg, first_avg)
             THEN [num |-> 100 * d.den + d.num, den |-> 2 * d.den]
             ELSE [num |-> d.num + 100 * d.den, den |-> 2 * d.den]
        ELSE IF d.num < 0 THEN d ELSE [num |-> 0, den |-> 1]

\* the metrics block: the window means, raw_improvement, the resolution
\* status and the recovery index
VaderMetrics(rows, solved_indicator) ==
    LET total_segments == Len(rows)
        windows    == VaderWindows(total_segments)
        first_avg  == MeanCompound(rows, windows.first)
        middle_avg == MeanCompound(rows, windows.middle)
        last_avg   == MeanCompound(rows, windows.last)
    IN  [total_segments  |-> total_segments,
         windows         |-> windows,
         first_avg       |-> first_avg,
         middle_avg      |-> middle_avg,
         last_avg        |-> last_avg,
         raw_improvement |-> FracSub(last_avg, first_avg),
         call_solved_status |-> IF solved_indicator = 1 THEN "Resuelto" ELSE "No Resuelto",
         sentiment_recovery_index |-> RecoveryIndex(first_avg, last_avg, solved_indicator)]

\* compound scores of polarity_scores, in hundredths
CompoundLevels == {-90, -50, 0, 30, 90}

\* results_list for n customer segments: the first half of the call scored
\* a, the rest scored b
ResultsList(n, a, b) ==
    [k \in 1..n |-> [Index |-> k, Compound |-> IF k <= n \div 2 THEN a ELSE b]]

\* what analyze_call_solution left in st.session_state["solved_indicator"]
SolvedIndicators == {0, 1, 2}

\* the tab at its line 419: the customer segments are scored and the
\* resolution indicator is stored
InitLexicon ==
    /\ analyzer = Construct(TRUE)
    /\ transcriber = NoTranscription
    /\ entry = "none"
    /\ pc = "idle"
    /\ call_segments = <<>>
    /\ custom_prompt = None
    /\ \E n \in 1..MaxCustomers, a \in CompoundLevels, b \in CompoundLevels :
          analyzed_segments = ResultsList(n, a, b)
    /\ outcome = "none"
    /\ result = NoResult
    /\ invocations = <<>>
    /\ service_calls = <<>>
    /\ \E solved_indicator \in SolvedIndicators :
          tab = [NoTab EXCEPT !.name = "vader", !.clicked = TRUE,
                              !.resolution_called = TRUE,
                              !.solved_indicator = solved_indicator,
                              !.lexicon_scored = Len(analyzed_segments),
                              !.shown = "metrics"]

ComputeVaderMetrics ==
    /\ pc = "idle"
    /\ entry' = "vader_metrics"
    /\ pc' = "done"
    /\ outcome' = "returned"
    /\ result' = VaderMetrics(analyzed_segments, tab.solved_indicator)
    /\ UNCHANGED <<analyzer, transcriber, call_segments, custom_prompt, analyzed_segments,
                   invocations, service_calls, tab>>

NextLexicon == ComputeVaderMetrics

SpecLexicon == InitLexicon /\ [][NextLexicon]_vars


(***************************************************************************)
(* Properties of the lexicon path's metrics, checked under SpecLexicon.    *)
(***************************************************************************)
MetricsDone == entry = "vader_metrics" /\ pc = "done"

\* the positions a, a + 1, ..., b
Positions(a, b) == [k \in 1..(b - a + 1) |-> a + k - 1]

C15_TwoImprovingSegmentsImprove ==
    (/\ MetricsDone
     /\ Len(analyzed_segments) = 2
     /\ analyzed_segments[2].Compound > analyzed_segments[1].Compound)
    => result.raw_improvement.num > 0

\* C15 amended: on the lexicon path two customer segments give first_avg =
\* last_avg = the mean of both compound scores, so the improvement
\* last_avg - first_avg is 0 also when the score improves.
C15_TwoSegmentsGiveNoImprovement ==
    (MetricsDone /\ Len(analyzed_segments) = 2)
    => LET total == analyzed_segments[1].Compound + analyzed_segments[2].Compound
       IN  /\ result.first_avg = [num |-> total, den |-> 2]
           /\ result.last_avg = [num |-> total, den |-> 2]
           /\ result.raw_improvement.num = 0

C15_Witness ==
    /\ MetricsDone
    /\ Len(analyzed_segments) = 2
    /\ analyzed_segments[2].Compound > analyzed_segments[1].Compound
    /\ result.raw_improvement.num = 0

\* C17: when the call is not solved (indicator other than 1) the recovery
\* index is min(0, last_avg - first_avg), hence never above 0.
C17_UnsolvedIndexNotPositive ==
    (MetricsDone /\ tab.solved_indicator # 1)
    => LET d == FracSub(result.last_avg, result.first_avg)
           index == result.sentiment_recovery_index
       IN  /\ index.den > 0
           /\ index.num <= 0
           /\ d.num < 0 => index.num * d.den = d.num * index.den
           /\ d.num >= 0 => index.num = 0

C17_Witness ==
    /\ MetricsDone
    /\ tab.solved_indicator = 2
    /\ FracLess(result.first_avg, result.last_avg)
    /\ result.sentiment_recovery_index.num = 0

\* C18: when the call is solved the recovery index lies in [0, 1] for all
\* window averages in [-1, 1]: it is (last_avg - first_avg + 1) / 2 when
\* last_avg >= first_avg and 0.5 * (1 + (last_avg - first_avg)) when
\* last_avg < first_avg, and it is positive also when the sentiment drops.
C18_SolvedIndexInUnitRange ==
    (MetricsDone /\ tab.solved_indicator = 1)
    => LET d == FracSub(result.last_avg, result.first_avg)
           index == result.sentiment_recovery_index
       IN  /\ index.den > 0
           /\ index.num * 2 * d.den = (d.num + 100 * d.den) * index.den
           /\ index.num >= 0
           /\ index.num <= 100 * index.den
           /\ d.num < 0 => index.num > 0


(***************************************************************************)
(* analyze_full_call from the end of its loop: the aggregation of a list   *)
(* of scored segments (filter, improvement, summary, recommendations).     *)
(***************************************************************************)
\* the longest list of scored segments aggregated
MaxScored == 3

\* the input segments of the aggregated calls
AggregateSegments ==
    {[speaker |-> SpeakerCustomer, text |-> TextThanks, timestamp |-> TimeZero],
     [speaker |-> SpeakerAgent, text |-> TextThanks, timestamp |-> TimeZero]}

\* replies giving the scores 1, 3, -1, -3 and 0
AggregateReplies ==
    {JoinLines(<<ReplyLine(LabelSentiment, ValPositivo), ReplyLine(LabelIntensity, <<"1">>)>>),
     JoinLines(<<ReplyLine(LabelSentiment, ValPositivo), ReplyLine(LabelIntensity, <<"3">>)>>),
     JoinLines(<<ReplyLine(LabelSentiment, ValNegativeUpper), ReplyLine(LabelIntensity, <<"1">>)>>),
     JoinLines(<<ReplyLine(LabelSentiment, ValNegativeUpper), ReplyLine(LabelIntensity, <<"3">>)>>),
     JoinLines(<<ReplyLine(LabelSentiment, ValNeutral), ReplyLine(LabelIntensity, <<"1">>)>>)}

\* the scored segments the loop can have appended
ScoredSegments ==
    {ParseCohereResponse(reply, seg) : reply \in AggregateReplies, seg \in AggregateSegments}

\* analyze_full_call after its loop over n segments, every call answered
InitAggregate ==
    /\ analyzer = Construct(TRUE)
    /\ transcriber = NoTranscription
    /\ entry = "analyze_full_call"
    /\ pc = "aggregate"
    /\ analyzed_segments \in UNION {[1..n -> ScoredSegments] : n \in 1..MaxScored}
    /\ call_segments =
          [k \in 1..Len(analyzed_segments) |->
              [speaker   |-> analyzed_segments[k].speaker,
               text      |-> analyzed_segments[k].original_text,
               timestamp |-> analyzed_segments[k].timestamp]]
    /\ custom_prompt = None
    /\ outcome = "none"
    /\ result = NoResult
    /\ invocations = [k \in 1..Len(analyzed_segments) |-> k]
    /\ service_calls =
          [k \in 1..Len(analyzed_segments) |-> [segment |-> k, raised |-> FALSE]]
    /\ tab = NoTab

NextAggregate == ReturnResult

SpecAggregate == InitAggregate /\ [][NextAggregate]_vars

(***************************************************************************)
(* Properties of the aggregation, checked under SpecAggregate.             *)
(***************************************************************************)
\* sentiment_value x intensity of a scored segment, with positive +1,
\* neutral 0, negative -1
ScoreOf(s) ==
    (CASE s.sentiment = "positive" -> 1
       [] s.sentiment = "neutral"  -> 0
       [] s.sentiment = "negative" -> 0 - 1) * s.intensity

\* the window size of the table: all n below 6, 2 below 10, 3 below 30, else 5
TableWindowSize(n) == IF n < 6 THEN n ELSE IF n < 10 THEN 2 ELSE IF n < 30 THEN 3 ELSE 5

RECURSIVE SumScoreOf(_)
SumScoreOf(segs) == IF segs = <<>> THEN 0 ELSE ScoreOf(Head(segs)) + SumScoreOf(Tail(segs))

\* C16 as stated: customer_improvement is the mean of sentiment_value x
\* intensity over the last window of the customer trajectory minus the mean
\* over its first window, the window size given by the table of the lexicon
\* path.
C16_ImprovementByWindows ==
    outcome = "returned" =>
        LET traj == result.customer_trajectory
            n    == Len(traj)
            w    == TableWindowSize(n)
        IN  result.metrics.customer_improvement * w
              = SumScoreOf(SubSeq(traj, n - w + 1, n)) - SumScoreOf(SubSeq(traj, 1, w))

\* C16 amended: customer_improvement is sentiment_value x intensity of the
\* last segment of the customer trajectory minus that of its first segment,
\* whatever the number n of customer segments, and 0 when n < 2.
C16_ImprovementByEndpoints ==
    outcome = "returned" =>
        LET traj == result.customer_trajectory
            n    == Len(traj)
        IN  result.metrics.customer_improvement
              = IF n < 2 THEN 0 ELSE ScoreOf(traj[n]) - ScoreOf(traj[1])

C16_Witness ==
    /\ outcome = "returned"
    /\ Len(result.customer_trajectory) = 3
    /\ ScoreOf(result.customer_trajectory[1]) = 0 - 3
    /\ ScoreOf(result.customer_trajectory[2]) = 3
    /\ ScoreOf(result.customer_trajectory[3]) = 0 - 1
    /\ result.metrics.customer_improvement = 2

\* C19: call_outcome depends on customer_improvement alone: highly_successful
\* above 2, successful in (0, 2], neutral in (-2, 0], needs_attention at -2
\* and below; call_success is true exactly when customer_improvement > 0.
C19_OutcomeLadder ==
    outcome = "returned" =>
        LET i == result.metrics.customer_improvement
        IN  /\ i > 2 => result.summary.call_outcome = "highly_successful"
            /\ (0 < i /\ i <= 2) => result.summary.call_outcome = "successful"
            /\ (0 - 2 < i /\ i <= 0) => result.summary.call_outcome = "neutral"
            /\ i <= 0 - 2 => result.summary.call_outcome = "needs_attention"
            /\ result.metrics.call_success = (i > 0)

C19_Witness ==
    /\ outcome = "returned"
    /\ result.metrics.customer_improvement = 0 - 2
    /\ result.summary.call_outcome = "needs_attention"
    /\ ~result.metrics.call_success

\* the number of analysed segments with sentiment c
CountOf(c) ==
    Cardinality({k \in 1..Len(result.analyzed_segments) :
                    result.analyzed_segments[k].sentiment = c})

\* C20: dominant_sentiment is a category with the largest count among all
\* analysed segments, and of several such categories the first in the
\* order positive, neutral, negative.
C20_DominantSentiment ==
    outcome = "returned" =>
        LET dom == result.summary.dominant_sentiment
        IN  /\ result.summary.sentiment_distribution
                  = [positive |-> CountOf("positive"), neutral |-> CountOf("neutral"),
                     negative |-> CountOf("negative")]
            /\ dom \in {"positive", "neutral", "negative"}
            /\ \A c \in {"positive", "neutral", "negative"} : CountOf(dom) >= CountOf(c)
            /\ dom = "neutral" => CountOf("positive") < CountOf("neutral")
            /\ dom = "negative" =>
                  CountOf("positive") < CountOf("negative")
                  /\ CountOf("neutral") < CountOf("negative")

C20_Witness ==
    /\ outcome = "returned"
    /\ Len(result.analyzed_segments) = 2
    /\ result.analyzed_segments[1].sentiment = "negative"
    /\ result.analyzed_segments[1].speaker = SpeakerAgent
    /\ result.analyzed_segments[2].sentiment = "neutral"
    /\ result.customer_trajectory = <<result.analyzed_segments[2]>>
    /\ result.summary.dominant_sentiment = "neutral"


(***************************************************************************)
(* analyze_call_solution called on its own: every analyzer, transcript,    *)
(* prompt and behaviour of the completion service.                         *)
(***************************************************************************)
SolvedTwo == <<"{","\"","s","o","l","v","e","d","\"",":"," ","2","}">>

SolvedTrue == <<"{","\"","s","o","l","v","e","d","\"",":"," ","t","r","u","e","}">>

SolvedString == <<"{","\"","s","o","l","v","e","d","\"",":"," ","\"","1","\"","}">>

SolvedWord == <<"{","\"","s","o","l","v","e","d","\"",":"," ","\"","y","e","s","\"","}">>

SolvedNull == <<"{","\"","s","o","l","v","e","d","\"",":"," ","n","u","l","l","}">>

SolvedMinus == <<"{","\"","s","o","l","v","e","d","\"",":"," ","-","1","}">>

\* the transcripts handed to analyze_call_solution
Transcripts == {JoinLines(<<LineCustomer, LineAgent>>), JoinLines(<<LineAgent, LineCustomer>>)}

\* the custom_prompt arguments of analyze_call_solution
SolutionPrompts == {None, <<>>, PromptSolution, PromptEscaped, PromptLiteralBrace}

\* replies of the completion service to the resolution prompt: empty and
\* blank, JSON objects with and without the key, other JSON, and no JSON
ResolutionReplies ==
    {<<>>, <<" "," ">>, SolvedOne, SolvedOne \o <<"\n">>, SolvedZero, SolvedTwo, SolvedMinus,
     SolvedTrue, SolvedString, SolvedWord, SolvedNull, <<"{","}">>, <<"[","1","]">>, <<"1">>,
     SolvedYes}

InitSolution ==
    /\ analyzer \in {Construct(TRUE), Construct(FALSE)}
    /\ transcriber = NoTranscription
    /\ entry = "none"
    /\ pc = "idle"
    /\ call_segments = <<>>
    /\ custom_prompt = None
    /\ analyzed_segments = <<>>
    /\ outcome = "none"
    /\ result = [solved_indicator |-> 0]
    /\ invocations = <<>>
    /\ service_calls = <<>>
    /\ tab = NoTab

\* one call of analyze_call_solution
AnalyzeSolution ==
    /\ pc = "idle"
    /\ \E transcribed_text \in Transcripts, prompt \in SolutionPrompts,
          behaviour \in Behaviours(ResolutionReplies) :
          LET r == AnalyzeCallSolution(analyzer, transcribed_text, prompt, behaviour)
          IN  /\ entry' = "analyze_call_solution"
              /\ tab' = [NoTab EXCEPT !.conversation_text = transcribed_text]
              /\ custom_prompt' = prompt
              /\ service_calls' =
                    IF r.called
                    THEN <<[segment |-> 0, raised |-> behaviour.kind = "raise",
                            reply |-> behaviour.text]>>
                    ELSE <<>>
              /\ outcome' = IF r.exc = "none" THEN "returned" ELSE r.exc
              /\ result' = [solved_indicator |-> r.value]
              /\ pc' = "done"
              /\ UNCHANGED <<analyzer, transcriber, call_segments, analyzed_segments,
                             invocations>>

NextSolution == AnalyzeSolution

SpecSolution == InitSolution /\ [][NextSolution]_vars

(***************************************************************************)
(* Properties of analyze_call_solution (SpecSolution).                     *)
(***************************************************************************)
SolutionCallDone == entry = "analyze_call_solution" /\ pc = "done"

\* the service replied with a JSON object whose 'solved' value is 1
RepliedSolvedOne ==
    /\ service_calls # <<>>
    /\ ~service_calls[1].raised
    /\ Strip(service_calls[1].reply) = SolvedOne

\* C21: analyze_call_solution never raises to its caller, its result is
\* exactly 0 or 1, and it is 1 only when the service reply is a JSON object
\* whose 'solved' value is 1; in every other case (analyzer not connected,
\* empty reply, invalid JSON, non-object JSON, missing key, any other
\* 'solved' value, service failure) it is 0.
C21_SolvedIsZeroOrOne ==
    SolutionCallDone =>
        /\ outcome = "returned"
        /\ result.solved_indicator \in {0, 1}
        /\ result.solved_indicator = 1 <=> RepliedSolvedOne


(***************************************************************************)
(* parse_conversation_text called on its own: every text and format name.  *)
(***************************************************************************)
MaxParseLines == 2

LinePadded == <<" "," ","C","l","i","e","n","t"," ",":"," "," ","T","h","a","n","k","s"," ",":"," ","b","y","e"," "," ">>

LineNoSpeaker == <<":"," ","h","e","l","l","o">>

LineStampedNoColon == <<"[","0","0",":","2","0","]"," ","h","o","l","a">>

LineBadStamp == <<"[","0",":","5","]"," ","A","g","e","n","t",":"," ","S","o","r","r","y">>

JsonUnclosedText == <<"[","{","\"","s","p","e","a","k","e","r","\"",":"," ","\"","A","g","e","n","t","\"">>

ParserLines ==
    {LineCustomer, LineAgent, LineNoText, LineNoColon, LineStampedCustomer, LineStampedAgent,
     LinePadded, LineNoSpeaker, LineStampedNoColon, LineBadStamp}

\* texts of up to MaxParseLines lines
LineTexts == {JoinLines(ls) : ls \in UNION {[1..k -> ParserLines] : k \in 0..MaxParseLines}}

\* JSON documents: arrays of well-formed and ill-formed elements, an object,
\* a scalar, and a text that is no JSON
JsonTexts ==
    {JsonConversationText, JsonBadItemsText, JsonTypedText, JsonObjectText, <<"1">>,
     JsonUnclosedText}

BlankTexts == {<<>>, <<" ">>, <<" ","\n"," ">>}

ParserTexts == LineTexts \cup JsonTexts \cup BlankTexts

\* the format names passed: the three options and a name that is none of them
FormatNames == FormatTypes \cup {"XML Format"}

InitParser ==
    /\ analyzer = NoAnalyzer
    /\ transcriber = NoTranscription
    /\ entry = "none"
    /\ pc = "idle"
    /\ call_segments = <<>>
    /\ custom_prompt = None
    /\ analyzed_segments = <<>>
    /\ outcome = "none"
    /\ result = NoResult
    /\ invocations = <<>>
    /\ service_calls = <<>>
    /\ tab \in {[NoTab EXCEPT !.conversation_text = text, !.format_type = format_type] :
                  text \in ParserTexts, format_type \in FormatNames}

\* one call of parse_conversation_text: the except clauses of lines 45 and
\* 140 catch every exception of the format parsers, so the call returns
ParseText ==
    /\ pc = "idle"
    /\ entry' = "parse_conversation_text"
    /\ tab' = [tab EXCEPT !.parse_called = TRUE,
                          !.parsed = ParseConversationText(tab.conversation_text,
                                                           tab.format_type)]
    /\ outcome' = "returned"
    /\ pc' = "done"
    /\ UNCHANGED <<analyzer, transcriber, call_segments, custom_prompt, analyzed_segments,
                   result, invocations, service_calls>>

NextParser == ParseText

SpecParser == InitParser /\ [][NextParser]_vars

(***************************************************************************)
(* Properties of the parser (SpecParser).                                  *)
(***************************************************************************)
ParseDone == entry = "parse_conversation_text" /\ pc = "done"

\* the position of the first occurrence of sub in s at or after from, 0 when
\* there is none
FindFrom(s, sub, from) ==
    LET hits == {i \in from..(Len(s) - Len(sub) + 1) : SubSeq(s, i, i + Len(sub) - 1) = sub}
    IN  IF hits = {} THEN 0 ELSE CHOOSE i \in hits : \A j \in hits : i <= j

\* the speakers and texts of segs occur in the input, one after the other,
\* from position cursor on
RECURSIVE OccurInOrder(_, _, _)
OccurInOrder(segs, input, cursor) ==
    IF segs = <<>> THEN TRUE
    ELSE LET sp == FindFrom(input, Head(segs).speaker, cursor)
             tx == IF sp = 0 THEN 0
                   ELSE FindFrom(input, Head(segs).text, sp + Len(Head(segs).speaker))
         IN  /\ sp # 0
             /\ tx # 0
             /\ OccurInOrder(Tail(segs), input, tx + Len(Head(segs).text))

\* C22: for the three formats and any input text, every segment returned by
\* parse_conversation_text has a speaker and a text that are non-empty and
\* equal to their own trimmed form; lines and elements that would violate
\* this are skipped, and the segments kept are in the order of the input.
C22_SegmentsTrimmedInOrder ==
    ParseDone =>
        /\ \A k \in 1..Len(tab.parsed) :
              /\ tab.parsed[k].speaker # <<>>
              /\ tab.parsed[k].text # <<>>
              /\ Strip(tab.parsed[k].speaker) = tab.parsed[k].speaker
              /\ Strip(tab.parsed[k].text) = tab.parsed[k].text
        /\ OccurInOrder(tab.parsed, tab.conversation_text, 1)

\* a parse that kept two segments and skipped an ill-formed line or element
C22_Witness ==
    /\ ParseDone
    /\ Len(tab.parsed) = 2
    /\ tab.parsed[1].speaker # tab.parsed[2].speaker
    /\ \/ tab.conversation_text = JsonTypedText
       \/ /\ tab.format_type = "Simple Format"
          /\ tab.conversation_text = JoinLines(<<LinePadded, LineCustomer>>)

\* the number of lines of a text
LineCount(text) == Len(Split(text, "\n"))

\* C23: parse_conversation_text never raises: an empty or whitespace-only
\* text, syntactically invalid JSON, JSON whose top level is not an array,
\* and an unknown format name each give an empty segment sequence, and
\* unmatched lines only reduce the number of segments.
C23_ParserNeverRaises ==
    ParseDone =>
        /\ outcome = "returned"
        /\ Strip(tab.conversation_text) = <<>> => tab.parsed = <<>>
        /\ tab.format_type \notin FormatTypes => tab.parsed = <<>>
        /\ (/\ tab.format_type = "JSON Format"
            /\ JsonLoads(Strip(tab.conversation_text)).kind # "array") => tab.parsed = <<>>
        /\ tab.format_type \in {"Simple Format", "Timestamped Format"} =>
              Len(tab.parsed) <= LineCount(tab.conversation_text)

\* parses that gave no segment: of an unknown format, of a JSON object
C23_Witness ==
    /\ ParseDone
    /\ tab.parsed = <<>>
    /\ \/ tab.format_type = "XML Format" /\ tab.conversation_text = LineCustomer
       \/ tab.format_type = "JSON Format" /\ tab.conversation_text = JsonObjectText
       \/ tab.format_type = "JSON Format" /\ tab.conversation_text = JsonUnclosedText

\* \d{1,2}:\d{2}, the shape of a timestamp
IsClock(t) ==
    \/ /\ Len(t) = 5 /\ IsDigit(t[1]) /\ IsDigit(t[2]) /\ t[3] = ":"
       /\ IsDigit(t[4]) /\ IsDigit(t[5])
    \/ /\ Len(t) = 4 /\ IsDigit(t[1]) /\ t[2] = ":" /\ IsDigit(t[3]) /\ IsDigit(t[4])

\* C24: every segment the parser returns, in any of the three formats, has
\* a timestamp that is a string, of the form MM:SS or the token "N/A"; in
\* the JSON format an element without a timestamp key gets "N/A" and an
\* element with the key gets a string.
C24_TimestampIsString ==
    ParseDone =>
        \A k \in 1..Len(tab.parsed) :
            /\ IsStr(tab.parsed[k].timestamp)
            /\ IsClock(tab.parsed[k].timestamp) \/ tab.parsed[k].timestamp = NotAvailable


(***************************************************************************)
(* validate_segments called on its own: every short list of segments.      *)
(***************************************************************************)
MaxValidated == 3

\* speaker labels: two that differ in letter case only, and two others
ValidatedSpeakers == {SpeakerCustomer, AliasCustomer, SpeakerAgent, SpeakerClienteUpper}

ValidatedSegments ==
    {[speaker |-> sp, text |-> TextThanks, timestamp |-> TimeZero] : sp \in ValidatedSpeakers}

ValidatedLists == UNION {[1..n -> ValidatedSegments] : n \in 0..MaxValidated}

InitValidate ==
    /\ analyzer = NoAnalyzer
    /\ transcriber = NoTranscription
    /\ entry = "none"
    /\ pc = "idle"
    /\ call_segments \in ValidatedLists
    /\ custom_prompt = None
    /\ analyzed_segments = <<>>
    /\ outcome = "none"
    /\ result = NoResult
    /\ invocations = <<>>
    /\ service_calls = <<>>
    /\ tab = NoTab

\* one call of validate_segments
ValidateSegmentList ==
    /\ pc = "idle"
    /\ entry' = "validate_segments"
    /\ result' = ValidateSegments(call_segments)
    /\ outcome' = "returned"
    /\ pc' = "done"
    /\ UNCHANGED <<analyzer, transcriber, call_segments, custom_prompt, analyzed_segments,
                   invocations, service_calls, tab>>

NextValidate == ValidateSegmentList

SpecValidate == InitValidate /\ [][NextValidate]_vars

(***************************************************************************)
(* Properties of the validator (SpecValidate).                             *)
(***************************************************************************)
ValidateDone == entry = "validate_segments" /\ pc = "done"

\* the speaker labels of a list, as written
LabelsOf(segs) == {segs[k].speaker : k \in 1..Len(segs)}

\* the segments of orig at the positions of keep, from position k on
RECURSIVE PickFrom(_, _, _)
PickFrom(orig, keep, k) ==
    IF k > Len(orig) THEN <<>>
    ELSE (IF k \in keep THEN <<orig[k]>> ELSE <<>>) \o PickFrom(orig, keep, k + 1)

\* segs is what remains of a list with at least 2 segments and at least 2
\* distinct speakers after some of its segments are removed
RemainsOfDialogue(segs) ==
    \E orig \in ValidatedLists :
        /\ Len(orig) >= 2
        /\ Cardinality(LabelsOf(orig)) >= 2
        /\ \E keep \in SUBSET (1..Len(orig)) : keep # 1..Len(orig) /\ PickFrom(orig, keep, 1) = segs

SpeakerCountReason == "Conversation needs at least 2 different speakers"

\* C25 as stated: a list with at least 2 segments and at least 2 distinct
\* speakers is valid, and whatever remains of it once segments are removed
\* until fewer than 2 distinct speakers are left is invalid with the
\* speaker-count reason.
C25_RemovalGivesSpeakerReason ==
    ValidateDone =>
        /\ (Len(call_segments) >= 2 /\ Cardinality(LabelsOf(call_segments)) >= 2)
              => result.valid
        /\ (RemainsOfDialogue(call_segments) /\ Cardinality(LabelsOf(call_segments)) < 2)
              => (~result.valid /\ result.error = SpeakerCountReason)

\* C25: a list with at least 2 segments and at least 2 distinct speaker
\* labels is valid; what remains of it with fewer than 2 distinct labels is
\* invalid, with the speaker-count reason when at least 2 segments remain,
\* the too-short reason when 1 remains and the no-segments reason when none
\* remains.
C25_RemovalGivesLadderReason ==
    ValidateDone =>
        /\ (Len(call_segments) >= 2 /\ Cardinality(LabelsOf(call_segments)) >= 2)
              => result.valid
        /\ (RemainsOfDialogue(call_segments) /\ Cardinality(LabelsOf(call_segments)) < 2)
              => /\ ~result.valid
                 /\ result.error =
                       IF Len(call_segments) = 0 THEN "No valid segments found"
                       ELSE IF Len(call_segments) = 1
                       THEN "Conversation too short (minimum 2 segments required)"
                       ELSE SpeakerCountReason

\* one segment remains of a dialogue: invalid, as too short
C25_Witness ==
    /\ ValidateDone
    /\ RemainsOfDialogue(call_segments)
    /\ Len(call_segments) = 1
    /\ ~result.valid
    /\ result.error = "Conversation too short (minimum 2 segments required)"

\* C26: speakers are counted after case normalisation: a list of 2 or more
\* segments whose labels differ in letter case only has fewer than 2
\* distinct speakers and is invalid with the speaker-count reason.
C26_SpeakersCountedWithoutCase ==
    ValidateDone =>
        ((/\ Len(call_segments) >= 2
          /\ Cardinality({Lower(sp) : sp \in LabelsOf(call_segments)}) < 2)
            => (~result.valid /\ result.error = SpeakerCountReason))


(***************************************************************************)
(* audio_transcriber.py: AudioTranscriber.                                 *)
(***************************************************************************)
\* max_polls
MaxPolls == 60

\* the path of the temporary file, and None
TempPath == "/tmp/tmp1.wav"

NoPath == "None"

\* what saving the upload can meet: the file is created and written, it
\* cannot be created, or it is created and writing it fails
SaveOutcomes == {"saved", "not_created", "write_failed"}

\* _save_uploaded_file: the path returned and the files it leaves on disk.
\* NamedTemporaryFile(delete=False) keeps the file when the with block is
\* left, on an exception too.
SaveUploadedFile(save_outcome) ==
    [path    |-> IF save_outcome = "saved" THEN TempPath ELSE NoPath,
     on_disk |-> IF save_outcome = "not_created" THEN {} ELSE {TempPath}]

\* an HTTP exchange: the request raised, or a response with a status code
\* and a JSON body
Raised == [kind |-> "exception", status_code |-> 0, body |-> EmptyDict]

Response(status_code, body) == [kind |-> "response", status_code |-> status_code, body |-> body]

UploadResponses ==
    {Raised, Response(500, EmptyDict), Response(200, [message |-> "ok"]),
     Response(200, [upload_url |-> ""]), Response(200, [upload_url |-> "https://cdn/upload/1"])}

\* _upload_file: the upload URL, or None
UploadFile(response) ==
    IF response.kind = "exception" THEN NoPath
    ELSE IF response.status_code # 200 THEN NoPath
    ELSE IF "upload_url" \notin DOMAIN response.body THEN NoPath
    ELSE response.body.upload_url

RequestResponses ==
    {Raised, Response(401, EmptyDict), Response(200, EmptyDict),
     Response(200, [status |-> "queued"]), Response(200, [id |-> "t1", status |-> "queued"])}

\* _request_transcription: the response's JSON body, or None; the caller
\* tests the value for truth only, and None is written as the dictionary
\* without keys, which is as false
RequestTranscription(response) ==
    IF response.kind = "exception" THEN EmptyDict
    ELSE IF response.status_code # 200 THEN EmptyDict
    ELSE response.body

WordBancoSabadell == <<"b","a","n","c","o"," ","s","a","b","a","d","e","l","l">>

WordTengoUnProblema == <<"t","e","n","g","o"," ","u","n"," ","p","r","o","b","l","e","m","a">>

WordNecesitoAyuda == <<"n","e","c","e","s","i","t","o"," ","a","y","u","d","a">>

WordEstoyMolesto == <<"e","s","t","o","y"," ","m","o","l","e","s","t","o">>

TextGreeting == <<"B","a","n","c","o"," ","S","a","b","a","d","e","l","l",","," ","d","i","g","a","m","e">>

TextProblem == <<" ","T","e","n","g","o"," ","u","n"," ","p","r","o","b","l","e","m","a"," ">>

TextFine == <<"V","a","l","e">>

\* utterances of a completed transcript
UtteranceA == [speaker |-> "A", text |-> TextGreeting, start |-> 500]

UtteranceB == [speaker |-> "B", text |-> TextProblem, start |-> 61500]

UtteranceC == [speaker |-> "A", text |-> TextFine, start |-> 125000]

UtteranceNoStart == [speaker |-> "B", text |-> TextFine]

\* the transcripts a status request can report as completed
CompletedTranscripts ==
    {[status |-> "completed", utterances |-> <<UtteranceA, UtteranceB, UtteranceC>>],
     [status |-> "completed", utterances |-> <<UtteranceB, UtteranceC>>],
     [status |-> "completed", utterances |-> <<UtteranceA, UtteranceNoStart>>],
     [status |-> "completed", utterances |-> <<>>],
     [status |-> "completed"]}

PollResponses ==
    {Raised, Response(500, EmptyDict), Response(200, [id |-> "t1"]),
     Response(200, [status |-> "queued"]), Response(200, [status |-> "processing"]),
     Response(200, [status |-> "error", error |-> <<"bad audio">>])}
    \cup {Response(200, t) : t \in CompletedTranscripts}

\* a loop condition that admits one more pass
PollLoopRuns_OneMore(poll_count) == poll_count <= MaxPolls

\* while poll_count < max_polls
PollLoopRuns(poll_count) == poll_count < MaxPolls

\* one pass of the loop of _poll_transcription: whether it returns, the
\* dictionary it returns, and poll_count after it
PollIteration(poll_count, response) ==
    IF response.kind = "exception"
    THEN [returns |-> TRUE, poll_count |-> poll_count,
          value |-> [error |-> <<"Polling error: ", "exception">>]]
    ELSE IF response.status_code # 200
    THEN [returns |-> TRUE, poll_count |-> poll_count,
          value |-> [error |-> <<"Polling failed with status ">>
                                   \o Decimal(response.status_code)]]
    ELSE IF Get(response.body, "status", "None") \in {"completed", "error"}
    THEN [returns |-> TRUE, poll_count |-> poll_count, value |-> response.body]
    ELSE [returns |-> FALSE, poll_count |-> poll_count + 1, value |-> EmptyDict]

\* the dictionary returned after the loop
PollTimeoutResult ==
    [error |-> <<"Transcription timeout - please try again with a shorter audio file">>]

\* the speaker name of utterance i, given the name of the one before
SpeakerName(i, prev_speaker, text) ==
    LET alternated == IF i = 1 THEN "Agent"
                      ELSE IF prev_speaker = "Agent" THEN "Customer" ELSE "Agent"
    IN  IF Contains(Lower(text), WordBancoSabadell) THEN "Agent"
        ELSE IF \E word \in {WordTengoUnProblema, WordNecesitoAyuda, WordEstoyMolesto} :
                    Contains(Lower(text), word)
        THEN "Customer"
        ELSE alternated

\* the loop of _format_conversation from utterance i on
RECURSIVE FormatUtterances(_, _, _)
FormatUtterances(utterances, i, prev_speaker) ==
    IF i > Len(utterances) THEN <<>>
    ELSE LET utterance == utterances[i]
             text == Strip(utterance.text)
             speaker_name == SpeakerName(i, prev_speaker, text)
         IN  << [speaker |-> speaker_name,
                 text |-> text,
                 timestamp |-> TwoDigits(utterance.start \div 60000) \o <<":">>
                               \o TwoDigits((utterance.start % 60000) \div 1000),
                 original_speaker |-> utterance.speaker] >>
             \o FormatUtterances(utterances, i + 1, speaker_name)

\* _format_conversation: exc is the exception that leaves it ("none" when
\* it returns), value the dictionary returned (the confidence, language
\* and duration entries, which are copied for display, are left out)
FormatConversation(transcript_data) ==
    IF "utterances" \notin DOMAIN transcript_data
    THEN [exc |-> "none", value |-> [error |-> <<"No speaker information found in transcript">>]]
    ELSE IF transcript_data.utterances = <<>>
    THEN [exc |-> "none", value |-> [error |-> <<"No speech detected in audio">>]]
    ELSE IF \E i \in 1..Len(transcript_data.utterances) :
                {"speaker", "text", "start"} \ DOMAIN transcript_data.utterances[i] # {}
    THEN [exc |-> "KeyError", value |-> EmptyDict]
    ELSE LET conversation_segments == FormatUtterances(transcript_data.utterances, 1, "None")
         IN  [exc |-> "none",
              value |-> [success |-> TRUE,
                         segments |-> conversation_segments,
                         total_speakers |->
                             Cardinality({transcript_data.utterances[i].speaker :
                                            i \in 1..Len(transcript_data.utterances)})]]

\* the run before an audio file is submitted
ReadyTranscription ==
    [step |-> "idle", steps |-> <<>>, temp_file_path |-> NoPath, temp_files |-> {},
     upload_url |-> NoPath, transcript_response |-> EmptyDict, poll_count |-> 0,
     status_requests |-> 0, last_poll |-> "none", final_transcript |-> EmptyDict,
     pending |-> [exc |-> "none", value |-> EmptyDict]]

InitTranscribe ==
    /\ analyzer = NoAnalyzer
    /\ transcriber = ReadyTranscription
    /\ entry = "none"
    /\ pc = "idle"
    /\ call_segments = <<>>
    /\ custom_prompt = None
    /\ analyzed_segments = <<>>
    /\ outcome = "none"
    /\ result = EmptyDict
    /\ invocations = <<>>
    /\ service_calls = <<>>
    /\ tab = NoTab

\* what every step of the run leaves alone
TranscriberFrame ==
    UNCHANGED <<analyzer, pc, call_segments, custom_prompt, analyzed_segments, invocations,
                service_calls, tab>>

\* transcribe_audio, step 1: save the upload; a failure returns before the
\* try block
SaveStep ==
    /\ transcriber.step = "idle"
    /\ \E save_outcome \in SaveOutcomes :
          LET saved == SaveUploadedFile(save_outcome)
          IN  IF saved.path = NoPath
              THEN /\ transcriber' = [transcriber EXCEPT !.step = "done", !.steps = <<"save">>,
                                                        !.temp_files = saved.on_disk]
                   /\ outcome' = "returned"
                   /\ result' = [error |-> <<"Failed to save uploaded file">>]
              ELSE /\ transcriber' = [transcriber EXCEPT !.step = "upload", !.steps = <<"save">>,
                                                        !.temp_file_path = saved.path,
                                                        !.temp_files = saved.on_disk]
                   /\ UNCHANGED <<outcome, result>>
    /\ entry' = "transcribe_audio"
    /\ TranscriberFrame

\* step 2: upload the file
UploadStep ==
    /\ transcriber.step = "upload"
    /\ \E response \in UploadResponses :
          LET upload_url == UploadFile(response)
          IN  transcriber' =
                IF upload_url \in {NoPath, ""}
                THEN [transcriber EXCEPT
                        !.step = "finally", !.steps = Append(@, "upload"),
                        !.pending = [exc |-> "none",
                                     value |-> [error |-> <<"Failed to upload audio file to AssemblyAI">>]]]
                ELSE [transcriber EXCEPT !.step = "request", !.steps = Append(@, "upload"),
                                         !.upload_url = upload_url]
    /\ UNCHANGED <<entry, outcome, result>>
    /\ TranscriberFrame

\* step 3: request the transcription, and read the id of the job
RequestStep ==
    /\ transcriber.step = "request"
    /\ \E response \in RequestResponses :
          LET transcript_response == RequestTranscription(response)
          IN  transcriber' =
                IF transcript_response = EmptyDict
                THEN [transcriber EXCEPT
                        !.step = "finally", !.steps = Append(@, "request"),
                        !.pending = [exc |-> "none",
                                     value |-> [error |-> <<"Failed to request transcription">>]]]
                ELSE IF "id" \notin DOMAIN transcript_response
                THEN [transcriber EXCEPT
                        !.step = "finally", !.steps = Append(@, "request"),
                        !.transcript_response = transcript_response,
                        !.pending = [exc |-> "KeyError", value |-> EmptyDict]]
                ELSE [transcriber EXCEPT
                        !.step = "poll", !.steps = Append(Append(@, "request"), "poll"),
                        !.transcript_response = transcript_response]
    /\ UNCHANGED <<entry, outcome, result>>
    /\ TranscriberFrame

\* what a status request reported
PollReport(response) ==
    IF response.kind = "exception" THEN "exception"
    ELSE IF response.status_code # 200 THEN "http"
    ELSE Get(response.body, "status", "None")

\* step 4, one pass of the loop of _poll_transcription
PollStep ==
    /\ transcriber.step = "poll"
    /\ PollLoopRuns(transcriber.poll_count)
    /\ \E response \in PollResponses :
          LET pass == PollIteration(transcriber.poll_count, response)
          IN  transcriber' =
                [transcriber EXCEPT
                   !.status_requests = @ + 1,
                   !.last_poll = PollReport(response),
                   !.poll_count = pass.poll_count,
                   !.step = IF pass.returns THEN "polled" ELSE "poll",
                   !.final_transcript = IF pass.returns THEN pass.value ELSE @]
    /\ UNCHANGED <<entry, outcome, result>>
    /\ TranscriberFrame

\* step 4, the loop of _poll_transcription ends without a return
PollTimeout ==
    /\ transcriber.step = "poll"
    /\ ~PollLoopRuns(transcriber.poll_count)
    /\ transcriber' = [transcriber EXCEPT !.step = "polled",
                                          !.final_transcript = PollTimeoutResult]
    /\ UNCHANGED <<entry, outcome, result>>
    /\ TranscriberFrame

\* step 5: format a completed transcript, or report the failure
FormatStep ==
    /\ transcriber.step = "polled"
    /\ transcriber' =
          IF Get(transcriber.final_transcript, "status", "None") = "completed"
          THEN [transcriber EXCEPT !.step = "finally", !.steps = Append(@, "format"),
                                   !.pending = FormatConversation(transcriber.final_transcript)]
          ELSE [transcriber EXCEPT
                  !.step = "finally",
                  !.pending =
                      [exc |-> "none",
                       value |-> [error |-> <<"Transcription failed: ">> \o
                                    Get(transcriber.final_transcript, "error",
                                        <<"Unknown error">>)]]]
    /\ UNCHANGED <<entry, outcome, result>>
    /\ TranscriberFrame

\* the finally clause, then the return or the exception: os.unlink removes
\* the file, or fails and is ignored
FinallyStep ==
    /\ transcriber.step = "finally"
    /\ \E unlinked \in BOOLEAN :
          transcriber' = [transcriber EXCEPT
                            !.step = "done",
                            !.temp_files = IF unlinked THEN @ \ {transcriber.temp_file_path}
                                           ELSE @]
    /\ outcome' = IF transcriber.pending.exc = "none" THEN "returned"
                  ELSE transcriber.pending.exc
    /\ result' = transcriber.pending.value
    /\ UNCHANGED entry
    /\ TranscriberFrame

NextTranscribe ==
    \/ SaveStep
    \/ UploadStep
    \/ RequestStep
    \/ PollStep
    \/ PollTimeout
    \/ FormatStep
    \/ FinallyStep

SpecTranscribe == InitTranscribe /\ [][NextTranscribe]_vars

\* _poll_transcription is a sequential loop: while a pass or the exit of
\* the loop can be taken, it is taken (every request returns or raises)
SpecTranscribeLive == SpecTranscribe /\ WF_vars(PollStep \/ PollTimeout)


(***************************************************************************)
(* Properties of the transcription run (SpecTranscribe, and                *)
(* SpecTranscribeLive for termination).                                    *)
(***************************************************************************)
TranscribeDone == entry = "transcribe_audio" /\ transcriber.step = "done"

StepTaken(name) == \E i \in 1..Len(transcriber.steps) : transcriber.steps[i] = name

\* the reports that end the polling at once
TerminalReports == {"completed", "error", "http", "exception"}

\* _poll_transcription has returned
PollReturned == StepTaken("poll") /\ transcriber.step \in {"polled", "finally", "done"}

PollBounded ==
    /\ transcriber.status_requests <= MaxPolls
    /\ transcriber.step = "poll" => transcriber.last_poll \notin TerminalReports
    /\ PollReturned =>
          /\ \/ /\ transcriber.last_poll \in TerminalReports
                /\ transcriber.status_requests = transcriber.poll_count + 1
                /\ transcriber.final_transcript # PollTimeoutResult
             \/ /\ transcriber.last_poll \notin TerminalReports
                /\ transcriber.poll_count = MaxPolls
                /\ transcriber.status_requests = MaxPolls
                /\ transcriber.final_transcript = PollTimeoutResult
          /\ Get(transcriber.final_transcript, "status", "None") = "completed"
                => transcriber.last_poll = "completed"

\* C27: _poll_transcription always terminates: it issues at most 60 status
\* requests, returns at once on the first 'completed' or 'error' status,
\* non-200 response or request exception, returns the timeout dictionary
\* after 60 polls without a terminal status, and returns a result with
\* status 'completed' only if the service reported 'completed'.
C27_PollingTerminates ==
    /\ []PollBounded
    /\ (transcriber.step = "poll") ~> (transcriber.step # "poll")

\* the polling ran out: 60 requests, none with a terminal status
C27_Witness ==
    /\ PollReturned
    /\ transcriber.status_requests = MaxPolls
    /\ transcriber.final_transcript = PollTimeoutResult

\* C28: whenever transcribe_audio returns, on every path, no temporary
\* audio file created by the invocation remains on disk.
C28_NoTempFileRemains == TranscribeDone => transcriber.temp_files = {}

IsPrefix(s, t) == Len(s) <= Len(t) /\ SubSeq(t, 1, Len(s)) = s

\* C29: transcribe_audio performs its steps in the order save, upload,
\* request, poll, format, and a failed step prevents every later one: no
\* request without a successful upload, no polling without a successful
\* request; a result with success == true is returned only when polling
\* ended with status 'completed' and the transcript has an utterance, and
\* every other run returns a dictionary with an 'error' key and no
\* 'success' key.
C29_StepsInOrderErrorsAsResults ==
    TranscribeDone =>
        /\ IsPrefix(transcriber.steps, <<"save", "upload", "request", "poll", "format">>)
        /\ StepTaken("upload") => transcriber.temp_file_path # NoPath
        /\ StepTaken("request") => transcriber.upload_url \notin {NoPath, ""}
        /\ StepTaken("poll") => transcriber.transcript_response # EmptyDict
        /\ IF outcome = "returned" /\ "success" \in DOMAIN result
           THEN /\ result.success
                /\ transcriber.last_poll = "completed"
                /\ Get(transcriber.final_transcript, "utterances", <<>>) # <<>>
           ELSE /\ outcome = "returned"
                /\ "error" \in DOMAIN result
                /\ "success" \notin DOMAIN result



(***************************************************************************)
(* The three verdicts analyze_full_call derives from customer_improvement, *)
(* checked under SpecAggregate.                                            *)
(***************************************************************************)
\* a result of analyze_full_call has been returned
AggregateReturned == entry = "analyze_full_call" /\ pc = "done" /\ outcome = "returned"

\* C30: in every result of analyze_full_call, metrics.call_success is true
\* exactly when summary.call_outcome is 'successful' or 'highly_successful';
\* the recommendations list has one entry when customer_improvement >= 0 and
\* two, the second being the follow-up suggestion, when it is below 0; and
\* with fewer than 2 customer segments customer_improvement is 0,
\* call_success is false and call_outcome is 'neutral'.
C30_VerdictsAgree ==
    AggregateReturned =>
        LET customer_improvement == result.metrics.customer_improvement
            recommendations      == result.recommendations
        IN  /\ result.metrics.call_success
                 <=> result.summary.call_outcome \in {"successful", "highly_successful"}
            /\ customer_improvement >= 0 => Len(recommendations) = 1
            /\ customer_improvement < 0
                 => /\ Len(recommendations) = 2
                    /\ recommendations[2] = "proactive_follow_up"
            /\ Len(result.customer_trajectory) < 2
                 => /\ customer_improvement = 0
                    /\ ~result.metrics.call_success
                    /\ result.summary.call_outcome = "neutral"

\* a returned call whose customer ended one point lower than they started:
\* no success, outcome 'neutral', the stable message and the follow-up
C30_Witness ==
    /\ AggregateReturned
    /\ Len(result.customer_trajectory) >= 2
    /\ result.metrics.customer_improvement = 0 - 1
    /\ ~result.metrics.call_success
    /\ result.summary.call_outcome = "neutral"
    /\ result.recommendations = <<"remained_stable", "proactive_follow_up">>

=============================================================================
